---------------------------- MODULE Spec2Model ----------------------------
(***************************************************************************)
(* A model of the snek front end: the indentation-aware lexer              *)
(* (lexer.Lexer), the token model, the recursive-descent / precedence-     *)
(* climbing parser (parser.Parser) and the AST pretty-printer.             *)
(*                                                                         *)
(* Text is a sequence of one-character strings.  Go slices are 0-based,    *)
(* TLA+ sequences 1-based: Go's tokens[i] is tokens[i + 1] here.           *)
(***************************************************************************)
EXTENDS Integers, Sequences, FiniteSets, TLC

VARIABLES lexer, parser, pc, file, block, startPos, stmt, err

vars == <<lexer, parser, pc, file, block, startPos, stmt, err>>

-----------------------------------------------------------------------------
(* Bounds of the model *)

\* longest free-form character string given to the lexer
MaxLexLen == 4
\* most lines of an indentation-structured lexer input
MaxLines == 3
\* widest leading whitespace of a line of an indentation-structured input
MaxIndent == 2
\* most words of a free-form program given to the lexer and then the parser
MaxWords == 3
\* most tokens, before the EOF, of a token sequence given to the parser
MaxToks == 3
\* most statements in an indented block of a compound token sequence
MaxBodyStmts == 2

\* parameters in a parameter list
MaxParams == 3

-----------------------------------------------------------------------------
(* Characters and helpers on text *)

Digit == {"0", "1", "2", "3", "4", "5", "6", "7", "8", "9"}

Letter ==
    {"a", "b", "c", "d", "e", "f", "g", "h", "i", "j", "k", "l", "m",
     "n", "o", "p", "q", "r", "s", "t", "u", "v", "w", "x", "y", "z",
     "A", "B", "C", "D", "E", "F", "G", "H", "I", "J", "K", "L", "M",
     "N", "O", "P", "Q", "R", "S", "T", "U", "V", "W", "X", "Y", "Z", "_"}

\* \w of the regular expressions
WordChar == Letter \cup Digit

\* \s of the regular expressions
Whitespace == {" ", "\t", "\n", "\f", "\r"}

Min(S) == CHOOSE x \in S : \A y \in S : x <= y

Max(S) == CHOOSE x \in S : \A y \in S : x >= y

Last(s) == s[Len(s)]

Front(s) == SubSeq(s, 1, Len(s) - 1)

\* s without its first n characters: Go's s[n:]
Drop(s, n) == SubSeq(s, n + 1, Len(s))

\* length of the longest prefix of s made of characters of S
RunLen(s, S) ==
    IF \A i \in 1..Len(s) : s[i] \in S
    THEN Len(s)
    ELSE Min({i \in 1..Len(s) : s[i] \notin S}) - 1

HasPrefix(s, w) == Len(s) >= Len(w) /\ SubSeq(s, 1, Len(w)) = w

\* \b after n matched characters whose last one is a word character
AtBoundary(s, n) == n >= Len(s) \/ s[n + 1] \notin WordChar

RECURSIVE Rep(_, _)
Rep(c, n) == IF n = 0 THEN <<>> ELSE <<c>> \o Rep(c, n - 1)

RECURSIVE Concat(_)
Concat(ss) == IF ss = <<>> THEN <<>> ELSE Head(ss) \o Concat(Tail(ss))

-----------------------------------------------------------------------------
(* The token patterns of the lexer: each matcher gives the length of the   *)
(* match of its regular expression at the start of s, 0 when there is none *)
(* (FindString's "" result).                                               *)

\* ^(\d*\.)?\d+\b
MatchNumber(s) ==
    LET n0 == RunLen(s, Digit)
        n1 == IF n0 < Len(s) /\ s[n0 + 1] = "."
              THEN RunLen(Drop(s, n0 + 1), Digit) ELSE 0
    IN  IF n1 > 0 /\ AtBoundary(s, n0 + 1 + n1) THEN n0 + 1 + n1
        ELSE IF n0 > 0 /\ AtBoundary(s, n0) THEN n0
        ELSE 0

\* ^kw\b
MatchKeyword(s, kw) ==
    IF HasPrefix(s, kw) /\ AtBoundary(s, Len(kw)) THEN Len(kw) ELSE 0

\* ^(?:in|not\s+in)\b
MatchIn(s) ==
    LET in == <<"i", "n">>
        not == <<"n", "o", "t">>
        ws == IF HasPrefix(s, not) THEN RunLen(Drop(s, 3), Whitespace) ELSE 0
    IN  IF MatchKeyword(s, in) > 0 THEN 2
        ELSE IF ws > 0 /\ MatchKeyword(Drop(s, 3 + ws), in) > 0 THEN 3 + ws + 2
        ELSE 0

\* ^(a1|a2|...): the first alternative, in order, that is a prefix of s
MatchAlt(s, alts) ==
    LET hits == {i \in 1..Len(alts) : HasPrefix(s, alts[i])}
    IN  IF hits = {} THEN 0 ELSE Len(alts[Min(hits)])

\* ^[a-zA-Z_]\w*
MatchIdentifier(s) ==
    IF Len(s) > 0 /\ s[1] \in Letter THEN 1 + RunLen(Drop(s, 1), WordChar) ELSE 0

\* the rest of ^q([^q\\]*(\\.[^q\\]*)*)q after the opening quote: the length
\* up to and including the closing quote, 0 when the string is not closed
RECURSIVE StringBody(_, _)
StringBody(s, q) ==
    IF Len(s) = 0 THEN 0
    ELSE IF s[1] = q THEN 1
    ELSE IF s[1] = "\\"
         THEN IF Len(s) >= 2 /\ s[2] # "\n"
              THEN LET r == StringBody(Drop(s, 2), q) IN IF r = 0 THEN 0 ELSE 2 + r
              ELSE 0
    ELSE LET r == StringBody(Drop(s, 1), q) IN IF r = 0 THEN 0 ELSE 1 + r

\* ^"([^"\\]*(\\.[^"\\]*)*)" and its single-quote twin
MatchString(s, q) ==
    IF Len(s) > 0 /\ s[1] = q
    THEN LET r == StringBody(Drop(s, 1), q) IN IF r = 0 THEN 0 ELSE 1 + r
    ELSE 0

\* ^\s*\\\n
MatchContinuation(s) ==
    LET n == RunLen(s, Whitespace)
    IN  IF Len(s) >= n + 2 /\ s[n + 1] = "\\" /\ s[n + 2] = "\n" THEN n + 2 ELSE 0

\* ^\s+
MatchSpace(s) == RunLen(s, Whitespace)

\* ^#.*   (. matches no line break)
MatchComment(s) ==
    IF Len(s) > 0 /\ s[1] = "#"
    THEN 1 + (IF \E i \in 2..Len(s) : s[i] = "\n"
              THEN Min({i \in 2..Len(s) : s[i] = "\n"}) - 2
              ELSE Len(s) - 1)
    ELSE 0

\* ^\S+
MatchUnknown(s) ==
    IF \A i \in 1..Len(s) : s[i] \notin Whitespace
    THEN Len(s)
    ELSE Min({i \in 1..Len(s) : s[i] \in Whitespace}) - 1

Kw(w, t) == [kind |-> "keyword", arg |-> w, tType |-> t]

Alt(a, t) == [kind |-> "alt", arg |-> a, tType |-> t]

Ch(c, t) == [kind |-> "alt", arg |-> <<<<c>>>>, tType |-> t]

Pat(k, t) == [kind |-> k, arg |-> <<>>, tType |-> t]

\* the rules in their priority order
tokenPatterns ==
    << Pat("number", "NUMBER"),
       Kw(<<"d", "e", "f">>, "DEF"),
       Kw(<<"i", "f">>, "IF"),
       Kw(<<"e", "l", "s", "e">>, "ELSE"),
       Kw(<<"e", "l", "i", "f">>, "ELIF"),
       Kw(<<"f", "o", "r">>, "FOR"),
       Pat("in", "IN"),
       Kw(<<"w", "h", "i", "l", "e">>, "WHILE"),
       Kw(<<"o", "r">>, "OR"),
       Kw(<<"a", "n", "d">>, "AND"),
       Kw(<<"n", "o", "t">>, "NOT"),
       Kw(<<"p", "a", "s", "s">>, "PASS"),
       Kw(<<"b", "r", "e", "a", "k">>, "BREAK"),
       Kw(<<"c", "o", "n", "t", "i", "n", "u", "e">>, "CONTINUE"),
       Kw(<<"r", "e", "t", "u", "r", "n">>, "RETURN"),
       Kw(<<"g", "l", "o", "b", "a", "l">>, "GLOBAL"),
       Kw(<<"i", "m", "p", "o", "r", "t">>, "IMPORT"),
       Kw(<<"f", "r", "o", "m">>, "FROM"),
       Alt(<< <<"=", "=">>, <<"!", "=">>, <<">", "=">>, <<">">>,
              <<"<", "=">>, <<"<">> >>, "COMPARE"),
       Alt(<< <<"=">>, <<"+", "=">>, <<"-", "=">>, <<"*", "=">>,
              <<"/", "=">>, <<"/", "/", "=">>, <<"%", "=">> >>, "ASSIGN"),
       Alt(<< <<"+">>, <<"-">> >>, "SUM"),
       Alt(<< <<"*", "*">> >>, "EXP"),
       Alt(<< <<"/", "/">> >>, "PRODUCT"),
       Alt(<< <<"*">>, <<"/">>, <<"%">> >>, "PRODUCT"),
       Pat("identifier", "IDENTIFIER"),
       [kind |-> "string", arg |-> "\"", tType |-> "STRING"],
       [kind |-> "string", arg |-> "'", tType |-> "STRING"],
       Pat("continuation", "IGNORE"),
       Ch("\n", "NEW_LINE"),
       Pat("space", "IGNORE"),
       Pat("comment", "IGNORE"),
       Ch("(", "LPAREN"),
       Ch(")", "RPAREN"),
       Ch("[", "LBRACKET"),
       Ch("]", "RBRACKET"),
       Ch("{", "LBRACE"),
       Ch("}", "RBRACE"),
       Ch(",", "COMMA"),
       Ch(":", "COLON"),
       Ch(";", "SEMICOLON"),
       Ch(".", "DOT"),
       Pat("unknown", "UNKNOWN") >>

\* pattern.regex.FindString(input), as the length of the match
MatchPattern(pat, s) ==
    CASE pat.kind = "number" -> MatchNumber(s)
      [] pat.kind = "keyword" -> MatchKeyword(s, pat.arg)
      [] pat.kind = "in" -> MatchIn(s)
      [] pat.kind = "alt" -> MatchAlt(s, pat.arg)
      [] pat.kind = "identifier" -> MatchIdentifier(s)
      [] pat.kind = "string" -> MatchString(s, pat.arg)
      [] pat.kind = "continuation" -> MatchContinuation(s)
      [] pat.kind = "space" -> MatchSpace(s)
      [] pat.kind = "comment" -> MatchComment(s)
      [] pat.kind = "unknown" -> MatchUnknown(s)

\* the index of the first rule that matches s, 0 when none does
FirstMatch(s) ==
    LET hits == {i \in 1..Len(tokenPatterns) : MatchPattern(tokenPatterns[i], s) > 0}
    IN  IF hits = {} THEN 0 ELSE Min(hits)

\* a variant of the blank-line test that does not allow whitespace before
\* the comment or the end of the line; C22's property tells it from the code
MatchBlankLineFlushLeft(s) ==
    LET c == MatchComment(s)
    IN  IF c > 0
        THEN c + (IF Len(s) > c THEN 1 ELSE 0)
        ELSE IF s # <<>> /\ s[1] = "\n" THEN 1
        ELSE 0

\* ^\s*(#.*)?(\n|$) : the blank-or-comment-only line test at start of line
MatchBlankLine(s) ==
    LET n == RunLen(s, Whitespace)
        rest == Drop(s, n)
        c == MatchComment(rest)
        nls == {i \in 1..n : s[i] = "\n"}
    IN  IF c > 0
        THEN n + c + (IF Len(rest) > c THEN 1 ELSE 0)
        ELSE IF n = Len(s) THEN n
        ELSE IF nls # {} THEN Max(nls)
        ELSE 0

-----------------------------------------------------------------------------
(* The lexer *)

Token(t, lit, pos) == [Type |-> t, Literal |-> lit, Pos |-> pos]

\* lexer.New
NewLexer(input) ==
    [input |-> input, pos |-> 0, indentStack |-> <<0>>, startOfLine |-> TRUE,
     tokens |-> <<>>, errors |-> <<>>]

UnindentError == "unindent does not match any outer indentation level"

\* the dedent loop as it would be if it were an if: at most one level popped
PopDedentsOnce(l, indentLevel) ==
    IF Len(l.indentStack) > 1 /\ indentLevel < Last(l.indentStack)
    THEN [l EXCEPT !.indentStack = Front(@),
                   !.tokens = Append(@, Token("DEDENT", <<>>, l.pos))]
    ELSE l

\* the dedent loop: pop and emit DEDENT while the top is above indentLevel
RECURSIVE PopDedents(_, _)
PopDedents(l, indentLevel) ==
    IF Len(l.indentStack) > 1 /\ indentLevel < Last(l.indentStack)
    THEN PopDedents([l EXCEPT !.indentStack = Front(@),
                              !.tokens = Append(@, Token("DEDENT", <<>>, l.pos))],
                    indentLevel)
    ELSE l

\* a variant of tokenizeIndent that also opens a block when the line is
\* indented as far as the open level; C6's property tells it from the code
tokenizeIndentRepush(l, input) ==
    LET match == MatchBlankLine(input)
        indentLevel == RunLen(input, {" ", "\t"})
        indentation == SubSeq(input, 1, indentLevel)
        l1 == IF indentLevel >= Last(l.indentStack)
              THEN [l EXCEPT !.indentStack = Append(@, indentLevel),
                             !.tokens = Append(@, Token("INDENT", indentation, l.pos))]
              ELSE PopDedents(l, indentLevel)
    IN  IF match > 0
        THEN [l EXCEPT !.pos = @ + match]
        ELSE [l1 EXCEPT !.pos = @ + indentLevel, !.startOfLine = FALSE]

\* the start-of-line branch of tokenizeNext
tokenizeIndent(l, input) ==
    LET match == MatchBlankLine(input)
        indentLevel == RunLen(input, {" ", "\t"})
        indentation == SubSeq(input, 1, indentLevel)
        lastIndent == Last(l.indentStack)
        popped == PopDedents(l, indentLevel)
        l1 == IF indentLevel > lastIndent
              THEN [l EXCEPT !.indentStack = Append(@, indentLevel),
                             !.tokens = Append(@, Token("INDENT", indentation, l.pos))]
              ELSE IF indentLevel < lastIndent
              THEN IF Last(popped.indentStack) # indentLevel
                   THEN [popped EXCEPT !.errors = Append(@, UnindentError)]
                   ELSE popped
              ELSE l
    IN  IF match > 0
        THEN [l EXCEPT !.pos = @ + match]
        ELSE [l1 EXCEPT !.pos = @ + indentLevel, !.startOfLine = FALSE]

\* a variant of tokenizePattern that emits the token and leaves the cursor
\* where it was; C2's property tells it from the code
tokenizePatternStuck(l, input) ==
    LET i == FirstMatch(input)
        pattern == tokenPatterns[i]
        tokenLength == MatchPattern(pattern, input)
    IN  IF i = 0
        THEN [l EXCEPT !.tokens = Append(@, Token("UNKNOWN", <<input[1]>>, l.pos)),
                       !.pos = @ + 1]
        ELSE IF pattern.tType = "IGNORE"
        THEN [l EXCEPT !.pos = @ + tokenLength]
        ELSE [l EXCEPT !.tokens = Append(@, Token(pattern.tType,
                                                  SubSeq(input, 1, tokenLength), l.pos)),
                       !.startOfLine = IF pattern.tType = "NEW_LINE" THEN TRUE ELSE @]

\* the pattern loop of tokenizeNext and its unknown-character fallback
tokenizePattern(l, input) ==
    LET i == FirstMatch(input)
        pattern == tokenPatterns[i]
        tokenLength == MatchPattern(pattern, input)
    IN  IF i = 0
        THEN [l EXCEPT !.tokens = Append(@, Token("UNKNOWN", <<input[1]>>, l.pos)),
                       !.pos = @ + 1]
        ELSE IF pattern.tType = "IGNORE"
        THEN [l EXCEPT !.pos = @ + tokenLength]
        ELSE [l EXCEPT !.tokens = Append(@, Token(pattern.tType,
                                                  SubSeq(input, 1, tokenLength), l.pos)),
                       !.startOfLine = IF pattern.tType = "NEW_LINE" THEN TRUE ELSE @,
                       !.pos = @ + tokenLength]

\* Lexer.tokenizeNext
tokenizeNext(l) ==
    LET input == Drop(l.input, l.pos)
    IN  IF l.startOfLine THEN tokenizeIndent(l, input) ELSE tokenizePattern(l, input)

\* a variant of the closing loop that closes one level only; C5's property
\* tells it from the code
CloseDedentsOnce(l) ==
    IF Len(l.indentStack) > 1
    THEN [l EXCEPT !.tokens = Append(@, Token("DEDENT", <<>>, l.pos)),
                   !.indentStack = Front(@)]
    ELSE l

\* the closing loop of Tokenize: one DEDENT per level still open
RECURSIVE CloseDedents(_)
CloseDedents(l) ==
    IF Len(l.indentStack) > 1
    THEN CloseDedents([l EXCEPT !.tokens = Append(@, Token("DEDENT", <<>>, l.pos)),
                                !.indentStack = Front(@)])
    ELSE l

\* a variant of the end of Tokenize that emits EOF before it closes the open
\* blocks; C4's property tells it from the code
tokenizeEndEOFFirst(l) ==
    CloseDedents([l EXCEPT !.tokens = Append(@, Token("EOF", <<>>, l.pos))])

\* the end of Tokenize: closing NEW_LINE, DEDENTs, EOF
tokenizeEnd(l) ==
    LET l1 == IF Len(l.indentStack) > 1
              THEN [l EXCEPT !.tokens = Append(@, Token("NEW_LINE", <<>>, l.pos))]
              ELSE l
        l2 == CloseDedents(l1)
    IN  [l2 EXCEPT !.tokens = Append(@, Token("EOF", <<>>, l.pos))]

\* Lexer.Tokenize, run to its end
RECURSIVE Tokenize(_)
Tokenize(l) ==
    IF l.pos < Len(l.input) THEN Tokenize(tokenizeNext(l)) ELSE tokenizeEnd(l)

-----------------------------------------------------------------------------
(* The parser: precedences, dispatch tables, errors, AST nodes *)

LOWEST == 0

OR == 1

AND == 2

NOT == 3

COMPARE == 4

SUM == 5

PRODUCT == 6

PREFIX == 7

EXP == 8

ATTR == 9

\* the precedences map, with getPrecedence's default
getPrecedence(tok) ==
    CASE tok = "OR" -> OR
      [] tok = "AND" -> AND
      [] tok = "NOT" -> NOT
      [] tok = "COMPARE" -> COMPARE
      [] tok = "SUM" -> SUM
      [] tok = "PRODUCT" -> PRODUCT
      [] tok = "EXP" -> EXP
      [] tok \in {"LPAREN", "LBRACKET", "DOT"} -> ATTR
      [] OTHER -> LOWEST

\* the token kinds with a non-nil entry in simpleStatementFns
controlStatementTokens == {"PASS", "BREAK", "CONTINUE"}

\* the keys of compundStatementFns
compundStatementTokens == {"DEF", "IF", "FOR", "WHILE"}

\* the keys of prefixFns
prefixTokens == {"IDENTIFIER", "NUMBER", "LPAREN", "SUM"}

\* the keys of infixFns handled by parseExpressionInfix
expressionInfixTokens == {"OR", "AND", "COMPARE", "SUM", "PRODUCT", "EXP", "DOT"}

\* the keys of infixFns
infixTokens == expressionInfixTokens \cup {"LPAREN", "LBRACKET"}

NoErr == [kind |-> "nil", want |-> "", got |-> ""]

\* the runtime failure of an out-of-range index: no error value, the call is aborted
Panic == [kind |-> "panic: index out of range", want |-> "", got |-> ""]

NoPrefixErr(t) == [kind |-> "no prefix parse function for", want |-> "", got |-> t]

NoStatementErr(t) == [kind |-> "no statement parse function for", want |-> "", got |-> t]

EmptyErr == [kind |-> "empty simple statements", want |-> "", got |-> ""]

\* a nil ast.Node
Nil == [type |-> "nil"]

BlockNode(stmts) == [type |-> "Block", Statements |-> stmts]

IdentifierNode(name) == [type |-> "Identifier", Name |-> name]

NumberNode(value) == [type |-> "Number", Value |-> value]

AssignmentNode(target, op, value) ==
    [type |-> "Assignment", Target |-> target, Operator |-> op, Value |-> value]

PrefixNode(op, right) == [type |-> "Prefix", Operator |-> op, Right |-> right]

InfixNode(left, op, right) ==
    [type |-> "Infix", Left |-> left, Operator |-> op, Right |-> right]

IfNode(cond, body, else) ==
    [type |-> "If", Condition |-> cond, Body |-> body, Else |-> else]

WhileNode(cond, body, else) ==
    [type |-> "While", Condition |-> cond, Body |-> body, Else |-> else]

ControlNode(t) == [type |-> "Control", Type |-> t]

ReturnNode(value) == [type |-> "Return", Value |-> value]

ForNode(targets, values, body, else) ==
    [type |-> "For", Targets |-> targets, Values |-> values, Body |-> body,
     Else |-> else]

FunctionDefNode(name, params, body) ==
    [type |-> "FunctionDef", Name |-> name, Params |-> params, Body |-> body]

ParamNode(name, default) ==
    [type |-> "Param", Name |-> name, DefaultValue |-> default]

CallNode(fn, args) == [type |-> "Call", Function |-> fn, Args |-> args]

SliceNode(left, index) == [type |-> "Slice", Left |-> left, Index |-> index]

ExpressionsNode(exprs) == [type |-> "Expressions", Expressions |-> exprs]

-----------------------------------------------------------------------------
(* The parser's cursor *)

\* the zero value of token.Token
ZeroToken == Token("UNKNOWN", <<>>, 0)

\* what a parse function returns, with the parser's state after it
Res(p, node, e) == [p |-> p, node |-> node, err |-> e]

\* Parser.nextToken
nextToken(p) ==
    LET q == [p EXCEPT !.curToken = p.peekToken, !.pos = p.pos + 1]
    IN  IF q.pos >= Len(q.tokens)
        THEN q
        ELSE [q EXCEPT !.peekToken = q.tokens[q.pos + 1]]

\* a variant of setPos that restores the cursor one token too far; C10's
\* property tells it from the code
setPosOffByOne(p, index) ==
    IF index + 1 < Len(p.tokens)
    THEN [p |-> [p EXCEPT !.pos = index,
                          !.curToken = p.tokens[index + 1],
                          !.peekToken = p.tokens[index + 2]],
          panicked |-> FALSE]
    ELSE [p |-> [p EXCEPT !.pos = index], panicked |-> TRUE]

\* Parser.setPos: the three assignments in order, stopping at the first
\* index that is out of range
setPos(p, index) ==
    LET p1 == [p EXCEPT !.pos = index]
    IN  IF ~(index - 1 >= 0 /\ index - 1 < Len(p.tokens))
        THEN [p |-> p1, panicked |-> TRUE]
        ELSE LET p2 == [p1 EXCEPT !.curToken = p.tokens[index]]
             IN  IF ~(index < Len(p.tokens))
                 THEN [p |-> p2, panicked |-> TRUE]
                 ELSE [p |-> [p2 EXCEPT !.peekToken = p.tokens[index + 1]],
                       panicked |-> FALSE]

\* parser.New: the cursor after the two nextToken calls
New(tokens) ==
    nextToken(nextToken([tokens |-> tokens, pos |-> -1,
                         curToken |-> ZeroToken, peekToken |-> ZeroToken]))

curTokenIs(p, t) == p.curToken.Type = t

\* Parser.curError
curError(p, t) == [kind |-> "expected", want |-> t, got |-> p.curToken.Type]

\* Parser.expect, as the pair (parser after, error)
expect(p, t) ==
    IF curTokenIs(p, t) THEN Res(nextToken(p), Nil, NoErr) ELSE Res(p, Nil, curError(p, t))

isCompoundStatement(p) == p.curToken.Type \in compundStatementTokens

-----------------------------------------------------------------------------
(* The expression tier *)

RECURSIVE parseExpression(_, _)
RECURSIVE infixLoop(_, _, _)
RECURSIVE parsePrefix(_)
RECURSIVE parseInfix(_, _)
RECURSIVE parseExpressionPrefix(_)
RECURSIVE parseGroupPrefix(_)
RECURSIVE parseExpressionInfix(_, _)
RECURSIVE parseCallInfix(_, _)
RECURSIVE parseArgs(_, _)
RECURSIVE parseSlicesInfix(_, _)

\* Parser.parseIdentifierPrefix
parseIdentifierPrefix(p) ==
    IF ~curTokenIs(p, "IDENTIFIER")
    THEN Res(p, Nil, curError(p, "IDENTIFIER"))
    ELSE Res(nextToken(p), IdentifierNode(p.curToken.Literal), NoErr)

\* Parser.parseNumberPrefix
parseNumberPrefix(p) ==
    IF ~curTokenIs(p, "NUMBER")
    THEN Res(p, Nil, curError(p, "NUMBER"))
    ELSE Res(nextToken(p), NumberNode(p.curToken.Literal), NoErr)

\* Parser.parseExpressionPrefix, after the operand r has been parsed
prefixWithRight(op, r) == Res(r.p, PrefixNode(op, r.node), r.err)

\* a variant of parseExpressionPrefix whose operand extends over every
\* operator that follows; C28's property tells it from the code
parseExpressionPrefixGreedy(p) ==
    prefixWithRight(p.curToken.Literal, parseExpression(nextToken(p), LOWEST))

\* Parser.parseExpressionPrefix
parseExpressionPrefix(p) ==
    prefixWithRight(p.curToken.Literal, parseExpression(nextToken(p), PREFIX))

\* Parser.parseGroupPrefix, after expect(RPAREN) has returned e
groupClosed(r, e) == Res(e.p, r.node, e.err)

\* Parser.parseGroupPrefix, after the inner expression r has been parsed
groupInner(r) ==
    IF r.err # NoErr THEN r ELSE groupClosed(r, expect(r.p, "RPAREN"))

\* Parser.parseGroupPrefix
parseGroupPrefix(p) ==
    IF ~curTokenIs(p, "LPAREN")
    THEN Res(p, Nil, curError(p, "LPAREN"))
    ELSE groupInner(parseExpression(nextToken(p), LOWEST))

\* a variant of parseExpressionInfix that lowers the threshold of the right
\* operand for every operator; C29's property tells it from the code
infixPrecedenceLowered(p) == getPrecedence(p.curToken.Type) - 1

\* Parser.parseExpressionInfix: the precedence the right operand is parsed at
infixPrecedence(p) ==
    IF curTokenIs(p, "EXP")
    THEN getPrecedence(p.curToken.Type) - 1
    ELSE getPrecedence(p.curToken.Type)

\* Parser.parseExpressionInfix, after the right operand r has been parsed
infixWithRight(left, op, r) ==
    IF r.err # NoErr
    THEN Res(r.p, InfixNode(left, op, Nil), r.err)
    ELSE Res(r.p, InfixNode(left, op, r.node), NoErr)

\* Parser.parseExpressionInfix
parseExpressionInfix(p, left) ==
    infixWithRight(left, p.curToken.Literal,
                   parseExpression(nextToken(p), infixPrecedence(p)))

\* Parser.parseArgs: one turn of the loop, after the argument r has been parsed
argsWithArg(args, r) ==
    IF r.err # NoErr THEN Res(r.p, args, r.err)
    ELSE IF curTokenIs(r.p, "COMMA")
    THEN parseArgs(nextToken(r.p), Append(args, r.node))
    ELSE Res(r.p, Append(args, r.node), NoErr)

\* Parser.parseArgs: the loop, with the arguments gathered so far
parseArgs(p, args) ==
    IF curTokenIs(p, "RPAREN")
    THEN Res(p, args, NoErr)
    ELSE argsWithArg(args, parseExpression(p, LOWEST))

\* Parser.parseCallInfix, after expect(RPAREN) has returned e
callClosed(left, a, e) == Res(e.p, CallNode(left, a.node), e.err)

\* Parser.parseCallInfix, after the arguments a have been parsed
callWithArgs(left, a) ==
    IF a.err # NoErr THEN Res(a.p, CallNode(left, a.node), a.err)
    ELSE callClosed(left, a, expect(a.p, "RPAREN"))

\* Parser.parseCallInfix, after the opening parenthesis has been consumed
callOpened(left, p1) ==
    IF ~curTokenIs(p1, "RPAREN")
    THEN callWithArgs(left, parseArgs(p1, <<>>))
    ELSE callWithArgs(left, Res(p1, <<>>, NoErr))

\* Parser.parseCallInfix
parseCallInfix(p, left) == callOpened(left, nextToken(p))

\* Parser.parseSlicesInfix, after expect(RBRACKET) has returned e
sliceClosed(left, r, e) == Res(e.p, SliceNode(left, r.node), e.err)

\* Parser.parseSlicesInfix, after the index r has been parsed
sliceWithIndex(left, r) ==
    IF r.err # NoErr THEN Res(r.p, SliceNode(left, r.node), r.err)
    ELSE sliceClosed(left, r, expect(r.p, "RBRACKET"))

\* Parser.parseSlicesInfix
parseSlicesInfix(p, left) ==
    sliceWithIndex(left, parseExpression(nextToken(p), LOWEST))

\* the call prefix() of parseExpression, through the prefixFns table
parsePrefix(p) ==
    CASE p.curToken.Type = "IDENTIFIER" -> parseIdentifierPrefix(p)
      [] p.curToken.Type = "NUMBER" -> parseNumberPrefix(p)
      [] p.curToken.Type = "LPAREN" -> parseGroupPrefix(p)
      [] p.curToken.Type = "SUM" -> parseExpressionPrefix(p)

\* the call infix(leftExpr) of parseExpression, through the infixFns table
parseInfix(p, left) ==
    CASE p.curToken.Type \in expressionInfixTokens -> parseExpressionInfix(p, left)
      [] p.curToken.Type = "LPAREN" -> parseCallInfix(p, left)
      [] p.curToken.Type = "LBRACKET" -> parseSlicesInfix(p, left)

\* the infix loop of parseExpression, after infix(leftExpr) has returned r
infixLoopStep(r, precedence) ==
    IF r.err # NoErr THEN r ELSE infixLoop(r.p, r.node, precedence)

\* the infix loop of parseExpression
infixLoop(p, leftExpr, precedence) ==
    IF precedence < getPrecedence(p.curToken.Type)
    THEN IF p.curToken.Type \notin infixTokens
         THEN Res(p, leftExpr, NoErr)
         ELSE infixLoopStep(parseInfix(p, leftExpr), precedence)
    ELSE Res(p, leftExpr, NoErr)

\* Parser.parseExpression, after prefix() has returned l
expressionWithPrefix(l, precedence) ==
    IF l.err # NoErr THEN l ELSE infixLoop(l.p, l.node, precedence)

\* Parser.parseExpression
parseExpression(p, precedence) ==
    IF p.curToken.Type \notin prefixTokens
    THEN Res(p, Nil, NoPrefixErr(p.curToken.Type))
    ELSE expressionWithPrefix(parsePrefix(p), precedence)

-----------------------------------------------------------------------------
(* The statement tier *)

RECURSIVE parseBlock(_)
RECURSIVE parseStatements(_, _, _)
RECURSIVE parseStatement(_)
RECURSIVE parseCompoundStatement(_)
RECURSIVE parseFunctionDef(_)
RECURSIVE parseIfElifStatement(_, _)
RECURSIVE parseWhileStatement(_)
RECURSIVE parseElseBlock(_)
RECURSIVE parseForStatement(_)

\* a variant of parseControlStatement that does not consume the keyword;
\* C3's property tells it from the code
parseControlStatementStuck(p) == Res(p, ControlNode(p.curToken.Literal), NoErr)

\* Parser.parseControlStatement
parseControlStatement(p) ==
    Res(nextToken(p), ControlNode(p.curToken.Literal), NoErr)

\* Parser.parseTargets
parseTargets(p) == parseExpression(p, LOWEST)

\* a variant of parseReturnStatement that drops the error of the value; C24's
\* property tells it from the code
returnWithValueSilent(r) == Res(r.p, ReturnNode(r.node), NoErr)

\* Parser.parseReturnStatement, after the value r has been parsed
returnWithValue(r) == Res(r.p, ReturnNode(r.node), r.err)

\* Parser.parseReturnStatement, after expect(RETURN) has returned e
returnAfterKeyword(e) ==
    IF e.err # NoErr THEN Res(e.p, Nil, e.err)
    ELSE returnWithValue(parseExpression(e.p, LOWEST))

\* Parser.parseReturnStatement
parseReturnStatement(p) == returnAfterKeyword(expect(p, "RETURN"))

\* Parser.parseAssignmentStatement, after the value v has been parsed
assignmentWithValue(t, op, v) ==
    IF v.err # NoErr THEN Res(v.p, t.node, v.err)
    ELSE Res(v.p, AssignmentNode(t.node, op, v.node), NoErr)

\* Parser.parseAssignmentStatement, after the target t has been parsed
assignmentWithTarget(t) ==
    IF t.err # NoErr THEN t
    ELSE IF ~curTokenIs(t.p, "ASSIGN")
    THEN Res(t.p, t.node, curError(t.p, "ASSIGN"))
    ELSE assignmentWithValue(t, t.p.curToken.Literal,
                             parseExpression(nextToken(t.p), LOWEST))

\* Parser.parseAssignmentStatement
parseAssignmentStatement(p) == assignmentWithTarget(parseExpression(p, LOWEST))

RECURSIVE expressionsLoop(_, _)

\* Parser.parseExpressions, after setPos(startPos) has returned back
expressionsRestored(exprs, back) ==
    IF back.panicked
    THEN Res(back.p, Nil, Panic)
    ELSE Res(back.p, ExpressionsNode(exprs), NoErr)

\* Parser.parseExpressions: one turn of the loop, after the expression r has
\* been parsed from position startPos
expressionsWithExpr(exprs, startPos0, r) ==
    IF r.err # NoErr
    THEN IF Len(exprs) = 0
         THEN Res(r.p, ExpressionsNode(exprs), r.err)
         ELSE expressionsRestored(exprs, setPos(r.p, startPos0))
    ELSE IF curTokenIs(r.p, "COMMA")
    THEN expressionsLoop(nextToken(r.p), Append(exprs, r.node))
    ELSE expressionsLoop(r.p, Append(exprs, r.node))

\* the loop of Parser.parseExpressions, with the expressions gathered so far
expressionsLoop(p, exprs) ==
    expressionsWithExpr(exprs, p.pos, parseExpression(p, LOWEST))

\* Parser.parseExpressions
parseExpressions(p) == expressionsLoop(p, <<>>)

\* Parser.parseSimpleStatement, after setPos(startPos) has returned back
simpleRestored(back) ==
    IF back.panicked THEN Res(back.p, Nil, Panic)
    ELSE parseExpressions(back.p)

\* Parser.parseSimpleStatement, after parseAssignmentStatement has returned a
simpleAttempted(startPos0, a) ==
    IF a.err = NoErr THEN a ELSE simpleRestored(setPos(a.p, startPos0))

\* Parser.parseSimpleStatement
parseSimpleStatement(p) ==
    IF p.curToken.Type \in controlStatementTokens THEN parseControlStatement(p)
    ELSE IF p.curToken.Type = "RETURN" THEN parseReturnStatement(p)
    ELSE simpleAttempted(p.pos, parseAssignmentStatement(p))

RECURSIVE simpleStatementsLoop(_, _)

\* Parser.parseSimpleStatements, after its loop
simpleStatementsEnd(p, stmts) ==
    IF Len(stmts) = 0
    THEN Res(nextToken(p), BlockNode(stmts), EmptyErr)
    ELSE Res(nextToken(p), BlockNode(stmts), NoErr)

\* Parser.parseSimpleStatements: one turn of the loop, after the statement r
\* has been parsed
simpleStatementsWithStatement(stmts, r) ==
    IF r.err # NoErr THEN Res(r.p, BlockNode(stmts), r.err)
    ELSE IF ~curTokenIs(r.p, "SEMICOLON")
    THEN simpleStatementsEnd(r.p, Append(stmts, r.node))
    ELSE simpleStatementsLoop(nextToken(r.p), Append(stmts, r.node))

\* the loop of Parser.parseSimpleStatements, with the statements gathered so far
simpleStatementsLoop(p, stmts) ==
    IF curTokenIs(p, "NEW_LINE") THEN simpleStatementsEnd(p, stmts)
    ELSE simpleStatementsWithStatement(stmts, parseSimpleStatement(p))

\* Parser.parseSimpleStatements
parseSimpleStatements(p) == simpleStatementsLoop(p, <<>>)

\* Parser.parseParam, after the default value d has been parsed
paramWithDefault(n, d) == Res(d.p, ParamNode(n.node, d.node), d.err)

\* Parser.parseParam, after the name n has been parsed
paramWithName(n, requireDefault) ==
    IF n.err # NoErr THEN Res(n.p, ParamNode(n.node, Nil), n.err)
    ELSE IF requireDefault /\ ~curTokenIs(n.p, "ASSIGN")
    THEN Res(n.p, ParamNode(n.node, Nil), curError(n.p, "ASSIGN"))
    ELSE IF curTokenIs(n.p, "ASSIGN")
    THEN paramWithDefault(n, parseExpression(nextToken(n.p), LOWEST))
    ELSE Res(n.p, ParamNode(n.node, Nil), NoErr)

\* Parser.parseParam
parseParam(p, requireDefault) == paramWithName(parseIdentifierPrefix(p), requireDefault)

RECURSIVE paramsLoop(_, _, _)

\* parseParams as it would be if it never recorded that a default was seen
paramsWithParamForgetful(params, requireDefault, r) ==
    IF r.err # NoErr THEN Res(r.p, params, r.err)
    ELSE IF curTokenIs(r.p, "COMMA")
    THEN paramsLoop(nextToken(r.p), Append(params, r.node), requireDefault)
    ELSE Res(r.p, Append(params, r.node), NoErr)

\* Parser.parseParams: one turn of the loop, after the parameter r has been
\* parsed
paramsWithParam(params, requireDefault, r) ==
    IF r.err # NoErr THEN Res(r.p, params, r.err)
    ELSE IF curTokenIs(r.p, "COMMA")
    THEN paramsLoop(nextToken(r.p), Append(params, r.node),
                    requireDefault \/ r.node.DefaultValue # Nil)
    ELSE Res(r.p, Append(params, r.node), NoErr)

\* the loop of Parser.parseParams, with the parameters gathered so far
paramsLoop(p, params, requireDefault) ==
    IF curTokenIs(p, "RPAREN") THEN Res(p, params, NoErr)
    ELSE paramsWithParam(params, requireDefault, parseParam(p, requireDefault))

\* Parser.parseParams
parseParams(p) == paramsLoop(p, <<>>, FALSE)

\* Parser.parseStatement
parseStatement(p) ==
    IF isCompoundStatement(p) THEN parseCompoundStatement(p) ELSE parseSimpleStatements(p)

\* Parser.parseStatements: one turn of the loop, after the statement r has
\* been parsed
statementsWithStatement(endToken, stmts, r) ==
    IF r.err # NoErr THEN Res(r.p, BlockNode(stmts), r.err)
    ELSE parseStatements(r.p, endToken, Append(stmts, r.node))

\* Parser.parseStatements: the loop, with the statements gathered so far
parseStatements(p, endToken, stmts) ==
    IF curTokenIs(p, endToken) THEN Res(p, BlockNode(stmts), NoErr)
    ELSE statementsWithStatement(endToken, stmts, parseStatement(p))

\* Parser.parseBlock, after expect(DEDENT) has returned d
blockClosed(r, d) == Res(d.p, r.node, d.err)

\* Parser.parseBlock, after the statements r have been parsed
blockWithStatements(r) ==
    IF r.err # NoErr THEN r ELSE blockClosed(r, expect(r.p, "DEDENT"))

\* a variant of parseBlock that goes on to the statements whether or not
\* INDENT was found; C23's property tells it from the code
blockIndentedLenient(i) ==
    blockWithStatements(parseStatements(i.p, "DEDENT", <<>>))

\* Parser.parseBlock, after expect(INDENT) has returned i
blockIndented(i) ==
    IF i.err # NoErr THEN Res(i.p, Nil, i.err)
    ELSE blockWithStatements(parseStatements(i.p, "DEDENT", <<>>))

\* Parser.parseBlock
parseBlock(p) ==
    IF curTokenIs(p, "NEW_LINE")
    THEN blockIndented(expect(nextToken(p), "INDENT"))
    ELSE parseSimpleStatements(p)

\* Parser.parseElseBlock, after expect(COLON) has returned c
elseAfterColon(c) ==
    IF c.err # NoErr THEN Res(c.p, Nil, c.err) ELSE parseBlock(c.p)

\* Parser.parseElseBlock, after expect(ELSE) has returned e
elseAfterKeyword(e) ==
    IF e.err # NoErr THEN Res(e.p, Nil, e.err)
    ELSE elseAfterColon(expect(e.p, "COLON"))

\* Parser.parseElseBlock
parseElseBlock(p) == elseAfterKeyword(expect(p, "ELSE"))

\* Parser.parseIfElifStatement, after the elif or else part e has been parsed
ifWithElse(c, b, e) == Res(e.p, IfNode(c.node, b.node, e.node), e.err)

\* Parser.parseIfElifStatement, after the body b has been parsed
ifWithBody(c, b) ==
    IF b.err # NoErr THEN Res(b.p, IfNode(c.node, b.node, Nil), b.err)
    ELSE IF curTokenIs(b.p, "ELIF")
    THEN ifWithElse(c, b, parseIfElifStatement(b.p, TRUE))
    ELSE IF curTokenIs(b.p, "ELSE")
    THEN ifWithElse(c, b, parseElseBlock(b.p))
    ELSE Res(b.p, IfNode(c.node, b.node, Nil), NoErr)

\* Parser.parseIfElifStatement, after expect(COLON) has returned k
ifAfterColon(c, k) ==
    IF k.err # NoErr THEN Res(k.p, IfNode(c.node, Nil, Nil), k.err)
    ELSE ifWithBody(c, parseBlock(k.p))

\* Parser.parseIfElifStatement, after the condition c has been parsed
ifWithCondition(c) ==
    IF c.err # NoErr THEN Res(c.p, IfNode(c.node, Nil, Nil), c.err)
    ELSE ifAfterColon(c, expect(c.p, "COLON"))

\* Parser.parseIfElifStatement, after expect(startToken) has returned s
ifAfterKeyword(s) ==
    IF s.err # NoErr THEN Res(s.p, IfNode(Nil, Nil, Nil), s.err)
    ELSE ifWithCondition(parseExpression(s.p, LOWEST))

\* Parser.parseIfElifStatement
parseIfElifStatement(p, isElif) ==
    ifAfterKeyword(expect(p, IF isElif THEN "ELIF" ELSE "IF"))

\* Parser.parseIfStatement
parseIfStatement(p) == parseIfElifStatement(p, FALSE)

\* Parser.parseWhileStatement, after the else block e has been parsed
whileWithElse(c, b, e) == Res(e.p, WhileNode(c.node, b.node, e.node), e.err)

\* Parser.parseWhileStatement, after the body b has been parsed
whileWithBody(c, b) ==
    IF b.err # NoErr THEN Res(b.p, WhileNode(c.node, b.node, Nil), b.err)
    ELSE IF curTokenIs(b.p, "ELSE")
    THEN whileWithElse(c, b, parseElseBlock(b.p))
    ELSE Res(b.p, WhileNode(c.node, b.node, Nil), NoErr)

\* Parser.parseWhileStatement, after expect(COLON) has returned k
whileAfterColon(c, k) ==
    IF k.err # NoErr THEN Res(k.p, WhileNode(c.node, Nil, Nil), k.err)
    ELSE whileWithBody(c, parseBlock(k.p))

\* Parser.parseWhileStatement, after the condition c has been parsed
whileWithCondition(c) ==
    IF c.err # NoErr THEN Res(c.p, WhileNode(c.node, Nil, Nil), c.err)
    ELSE whileAfterColon(c, expect(c.p, "COLON"))

\* Parser.parseWhileStatement, after expect(WHILE) has returned s
whileAfterKeyword(s) ==
    IF s.err # NoErr THEN Res(s.p, WhileNode(Nil, Nil, Nil), s.err)
    ELSE whileWithCondition(parseExpression(s.p, LOWEST))

\* Parser.parseWhileStatement
parseWhileStatement(p) == whileAfterKeyword(expect(p, "WHILE"))

\* Parser.parseForStatement, after the else block e has been parsed
forWithElse(t, v, b, e) ==
    Res(e.p, ForNode(t.node, v.node, b.node, e.node), e.err)

\* Parser.parseForStatement, after the body b has been parsed
forWithBody(t, v, b) ==
    IF b.err # NoErr THEN Res(b.p, ForNode(t.node, v.node, b.node, Nil), b.err)
    ELSE IF curTokenIs(b.p, "ELSE")
    THEN forWithElse(t, v, b, parseElseBlock(b.p))
    ELSE Res(b.p, ForNode(t.node, v.node, b.node, Nil), NoErr)

\* Parser.parseForStatement, after expect(COLON) has returned k
forAfterColon(t, v, k) ==
    IF k.err # NoErr THEN Res(k.p, Nil, k.err)
    ELSE forWithBody(t, v, parseBlock(k.p))

\* Parser.parseForStatement, after the values v have been parsed
forWithValues(t, v) ==
    IF v.err # NoErr THEN Res(v.p, ForNode(t.node, v.node, Nil, Nil), v.err)
    ELSE forAfterColon(t, v, expect(v.p, "COLON"))

\* Parser.parseForStatement, after expect(IN) has returned i
forAfterIn(t, i) ==
    IF i.err # NoErr THEN Res(i.p, Nil, i.err)
    ELSE forWithValues(t, parseExpression(i.p, LOWEST))

\* Parser.parseForStatement, after the targets t have been parsed
forWithTargets(t) ==
    IF t.err # NoErr THEN Res(t.p, ForNode(t.node, Nil, Nil, Nil), t.err)
    ELSE forAfterIn(t, expect(t.p, "IN"))

\* Parser.parseForStatement, after expect(FOR) has returned s
forAfterKeyword(s) ==
    IF s.err # NoErr THEN Res(s.p, Nil, s.err)
    ELSE forWithTargets(parseTargets(s.p))

\* Parser.parseForStatement
parseForStatement(p) == forAfterKeyword(expect(p, "FOR"))

\* Parser.parseFunctionDef, after the body b has been parsed
defWithBody(n, ps, b) ==
    Res(b.p, FunctionDefNode(n.node, ps.node, b.node), b.err)

\* Parser.parseFunctionDef, after expect(COLON) has returned k
defAfterColon(n, ps, k) ==
    IF k.err # NoErr THEN Res(k.p, FunctionDefNode(n.node, ps.node, Nil), k.err)
    ELSE defWithBody(n, ps, parseBlock(k.p))

\* Parser.parseFunctionDef, after expect(RPAREN) has returned r
defClosed(n, ps, r) ==
    IF r.err # NoErr THEN Res(r.p, FunctionDefNode(n.node, ps.node, Nil), r.err)
    ELSE defAfterColon(n, ps, expect(r.p, "COLON"))

\* Parser.parseFunctionDef, after the parameters ps have been parsed
defWithParams(n, ps) ==
    IF ps.err # NoErr THEN Res(ps.p, FunctionDefNode(n.node, ps.node, Nil), ps.err)
    ELSE defClosed(n, ps, expect(ps.p, "RPAREN"))

\* Parser.parseFunctionDef, after expect(LPAREN) has returned l
defOpened(n, l) ==
    IF l.err # NoErr THEN Res(l.p, FunctionDefNode(n.node, <<>>, Nil), l.err)
    ELSE defWithParams(n, parseParams(l.p))

\* Parser.parseFunctionDef, after the name n has been parsed
defWithName(n) ==
    IF n.err # NoErr THEN Res(n.p, FunctionDefNode(n.node, <<>>, Nil), n.err)
    ELSE defOpened(n, expect(n.p, "LPAREN"))

\* Parser.parseFunctionDef, after expect(DEF) has returned s
defAfterKeyword(s) ==
    IF s.err # NoErr THEN Res(s.p, Nil, s.err)
    ELSE defWithName(parseIdentifierPrefix(s.p))

\* Parser.parseFunctionDef
parseFunctionDef(p) == defAfterKeyword(expect(p, "DEF"))

\* Parser.parseCompoundStatement, through the compundStatementFns table
parseCompoundStatement(p) ==
    CASE p.curToken.Type = "DEF" -> parseFunctionDef(p)
      [] p.curToken.Type = "IF" -> parseIfStatement(p)
      [] p.curToken.Type = "FOR" -> parseForStatement(p)
      [] p.curToken.Type = "WHILE" -> parseWhileStatement(p)
      [] OTHER -> Res(p, Nil, NoStatementErr(p.curToken.Type))

-----------------------------------------------------------------------------
(* The AST pretty-printer.  A writer is the ASTWriter's buffer and indent   *)
(* depth; panicked records a call of Write on a nil node, which aborts the  *)
(* serialization.                                                          *)

NIL_STRING == <<"<", "n", "i", "l", ">">>

INDENT == <<" ", " ", " ", " ">>

NewASTWriter == [out |-> <<>>, indent |-> 0, panicked |-> FALSE]

WriteString(w, s) == [w EXCEPT !.out = @ \o s]

writeIndent(w) == WriteString(w, Concat([i \in 1..w.indent |-> INDENT]))

WriteLine(w, s) == WriteString(WriteString(writeIndent(w), s), <<"\n">>)

Indent(w) == [w EXCEPT !.indent = @ + 1]

Dedent(w) == IF w.indent > 0 THEN [w EXCEPT !.indent = @ - 1] ELSE w

RECURSIVE Write(_, _)
RECURSIVE WriteAll(_, _, _)
RECURSIVE safeString(_)

\* n.String(): a fresh writer, n.Write(w), w.String()
String(n) == Write(NewASTWriter, n)

\* safeString, as a writer holding the text (or the abort)
safeString(n) == IF n = Nil THEN WriteString(NewASTWriter, NIL_STRING) ELSE String(n)

\* w.WriteLine(before + safeString(n) + after)
WriteLineSafe(w, before, n, after) ==
    LET s == safeString(n)
    IN  IF s.panicked THEN [w EXCEPT !.panicked = TRUE]
        ELSE WriteLine(w, before \o s.out \o after)

\* w.WriteString(before + safeString(n) + after)
WriteStringSafe(w, before, n, after) ==
    LET s == safeString(n)
    IN  IF s.panicked THEN [w EXCEPT !.panicked = TRUE]
        ELSE WriteString(w, before \o s.out \o after)

\* the loops that write a list of nodes, sep between two of them
WriteAll(w, nodes, sep) ==
    IF nodes = <<>> \/ w.panicked THEN w
    ELSE LET w1 == Write(w, Head(nodes))
         IN  WriteAll(IF Len(nodes) > 1 /\ ~w1.panicked THEN WriteString(w1, sep) ELSE w1,
                      Tail(nodes), sep)

\* the closing "else:" part shared by IfNode, WhileNode and ForNode
WriteElse(w, else) ==
    IF else # Nil /\ ~w.panicked
    THEN LET w1 == Write(Indent(WriteLine(w, <<"e", "l", "s", "e", ":">>)), else)
         IN  IF w1.panicked THEN w1 ELSE Dedent(w1)
    ELSE w

\* Indent, body.Write, Dedent
WriteBody(w, body) ==
    LET w1 == Write(Indent(w), body)
    IN  IF w.panicked THEN w ELSE IF w1.panicked THEN w1 ELSE Dedent(w1)

\* n.Write(w), by node variant
Write(w, n) ==
    IF w.panicked THEN w
    ELSE CASE n.type = "nil" -> [w EXCEPT !.panicked = TRUE]
      [] n.type = "Block" -> WriteAll(w, n.Statements, <<>>)
      [] n.type = "Identifier" -> WriteString(w, n.Name)
      [] n.type = "Number" -> WriteString(w, n.Value)
      [] n.type = "Assignment" ->
            LET w1 == Write(writeIndent(w), n.Target)
                w2 == Write(WriteString(w1, <<" ">> \o n.Operator \o <<" ">>), n.Value)
            IN  IF w1.panicked THEN w1
                ELSE IF w2.panicked THEN w2 ELSE WriteString(w2, <<"\n">>)
      [] n.type = "Prefix" ->
            LET w1 == Write(WriteString(w, <<"(">> \o n.Operator \o <<" ">>), n.Right)
            IN  IF w1.panicked THEN w1 ELSE WriteString(w1, <<")">>)
      [] n.type = "Infix" ->
            LET w1 == Write(WriteString(w, <<"(">>), n.Left)
                w2 == Write(WriteString(w1, <<" ">> \o n.Operator \o <<" ">>), n.Right)
            IN  IF w1.panicked THEN w1
                ELSE IF w2.panicked THEN w2 ELSE WriteString(w2, <<")">>)
      [] n.type = "If" ->
            WriteElse(WriteBody(WriteLineSafe(w, <<"i", "f", " ">>, n.Condition, <<":">>),
                                n.Body), n.Else)
      [] n.type = "While" ->
            WriteElse(WriteBody(WriteLineSafe(w, <<"w", "h", "i", "l", "e", " ">>,
                                              n.Condition, <<":">>), n.Body), n.Else)
      [] n.type = "Control" -> WriteLine(w, n.Type)
      [] n.type = "Return" ->
            WriteLineSafe(w, <<"r", "e", "t", "u", "r", "n", " ">>, n.Value, <<>>)
      [] n.type = "For" ->
            LET t == safeString(n.Targets)
                v == safeString(n.Values)
                w1 == IF t.panicked \/ v.panicked THEN [w EXCEPT !.panicked = TRUE]
                      ELSE WriteLine(w, <<"f", "o", "r", " ">> \o t.out
                                        \o <<" ", "i", "n", " ">> \o v.out \o <<":">>)
            IN  WriteElse(WriteBody(w1, n.Body), n.Else)
      [] n.type = "FunctionDef" ->
            LET w1 == WriteStringSafe(w, <<"d", "e", "f", " ">>, n.Name, <<"(">>)
                w2 == WriteAll(w1, n.Params, <<",", " ">>)
            IN  IF w2.panicked THEN w2
                ELSE WriteBody(WriteLine(w2, <<")", ":">>), n.Body)
      [] n.type = "Param" ->
            LET w1 == WriteStringSafe(w, <<>>, n.Name, <<>>)
            IN  IF n.DefaultValue # Nil
                THEN WriteStringSafe(w1, <<"=">>, n.DefaultValue, <<>>)
                ELSE w1
      [] n.type = "Call" ->
            LET w1 == WriteAll(WriteStringSafe(w, <<>>, n.Function, <<"(">>), n.Args,
                               <<",", " ">>)
            IN  IF w1.panicked THEN w1 ELSE WriteString(w1, <<")">>)
      [] n.type = "Slice" ->
            LET w1 == Write(WriteStringSafe(w, <<>>, n.Left, <<"[">>), n.Index)
            IN  IF w1.panicked THEN w1 ELSE WriteString(w1, <<"]">>)
      [] n.type = "Expressions" -> WriteAll(w, n.Expressions, <<",", " ">>)

-----------------------------------------------------------------------------
(* Inputs *)

SeqsUpTo(S, n) == UNION {[1..k -> S] : k \in 0..n}

\* free-form lexer inputs: every string over these characters
LexChars == {" ", "\t", "\n", "x", "#", "@", "\\"}

\* the text of a line after its leading whitespace
LineBodies == {<<"x">>, <<>>, <<"#">>}

\* one line: leading spaces, a body, a line break
Lines ==
    {Rep(" ", i) \o b \o <<"\n">> : i \in 0..MaxIndent, b \in LineBodies}

\* indentation-structured lexer inputs, with and without the last line break
LineInputs ==
    LET whole == {Concat(ls) : ls \in SeqsUpTo(Lines, MaxLines)}
    IN  whole \cup {Front(t) : t \in whole \ {<<>>}}

LexInputs == SeqsUpTo(LexChars, MaxLexLen) \cup LineInputs

\* the words free-form programs are made of
Words ==
    {<<"x">>, <<"1">>, <<"+">>, <<"*">>, <<"=">>, <<";">>, <<":">>, <<"\n">>, <<" ">>,
     <<"p", "a", "s", "s">>, <<"i", "f", " ">>}

WordPrograms == {Concat(ws) : ws \in SeqsUpTo(Words, MaxWords)}

\* the binary operators, as written in the source text
InfixOps ==
    {<<"o", "r">>, <<"a", "n", "d">>, <<"<">>, <<"=", "=">>, <<"+">>, <<"-">>,
     <<"*">>, <<"/">>, <<"%">>, <<"/", "/">>, <<"*", "*">>, <<".">>}

Operands == {<< <<"1">>, <<"2">>, <<"3">> >>, << <<"2">>, <<"3">>, <<"2">> >>,
             << <<"a">>, <<"b">>, <<"c">> >>}

\* the source text "a op1 b op2 c"
InfixSource(o, op1, op2) ==
    o[1] \o <<" ">> \o op1 \o <<" ">> \o o[2] \o <<" ">> \o op2 \o <<" ">> \o o[3]

\* sources of the form "a op1 b op2 c", with and without a final line break
InfixPrograms ==
    {InfixSource(o, op1, op2) \o nl :
        o \in Operands, op1 \in InfixOps, op2 \in InfixOps, nl \in {<<>>, <<"\n">>}}

\* "x = 1" and "x + 1", with and without a final line break
AssignPrograms ==
    {<<"x", " ", op, " ", "1">> \o nl : op \in {"=", "+"}, nl \in {<<>>, <<"\n">>}}

\* the line "  x = <v>" of an indented body
BodyLine(v) == <<" ", " ", "x", " ", "=", " ", v, "\n">>

\* "if a:" with an indented body, then optionally "elif b:" and "else:" with
\* theirs, every line ended by a line break
IfSource(withElif, withElse) ==
    <<"i", "f", " ", "a", ":", "\n">> \o BodyLine("1")
    \o (IF withElif THEN <<"e", "l", "i", "f", " ", "b", ":", "\n">> \o BodyLine("2")
        ELSE <<>>)
    \o (IF withElse THEN <<"e", "l", "s", "e", ":", "\n">> \o BodyLine("3") ELSE <<>>)

\* if statements with indented bodies: with and without the final line break,
\* and followed by an unindented statement
IfPrograms ==
    LET whole == {IfSource(e, l) : e \in BOOLEAN, l \in BOOLEAN}
    IN  whole \cup {Front(s) : s \in whole} \cup {s \o <<"x", "\n">> : s \in whole}

\* the unary operators, as written in the source text
PrefixOps == {<<"+">>, <<"-">>}

\* what follows the operand of a unary operator: nothing, a binary operator
\* and its right operand, a call, a subscript
PrefixTails ==
    {<<>>, <<"(", "x", ")">>, <<"[", "1", "]">>}
    \cup {<<" ">> \o op \o <<" ">> \o b :
            op \in InfixOps \ {<<"o", "r">>, <<"a", "n", "d">>, <<".">>},
            b \in {<<"b">>, <<"2">>}}

\* sources of the form "-a <tail>", with and without a final line break
PrefixPrograms ==
    {u \o a \o t \o nl :
        u \in PrefixOps, a \in {<<"a">>, <<"f">>}, t \in PrefixTails,
        nl \in {<<>>, <<"\n">>}}

Programs ==
    WordPrograms \cup InfixPrograms \cup AssignPrograms \cup IfPrograms \cup PrefixPrograms

\* the token kinds of the token sequences given to the parser directly
TokKinds ==
    {"IDENTIFIER", "NUMBER", "SUM", "PRODUCT", "EXP", "ASSIGN", "COMMA", "SEMICOLON",
     "NEW_LINE", "COLON", "LPAREN", "RPAREN", "PASS", "IF"}

\* the literal the lexer gives a token of each kind used below
KindLiteral(k) ==
    CASE k = "IDENTIFIER" -> <<"x">>
      [] k = "NUMBER" -> <<"1">>
      [] k = "SUM" -> <<"+">>
      [] k = "PRODUCT" -> <<"*">>
      [] k = "EXP" -> <<"*", "*">>
      [] k = "ASSIGN" -> <<"=">>
      [] k = "COMMA" -> <<",">>
      [] k = "SEMICOLON" -> <<";">>
      [] k = "NEW_LINE" -> <<"\n">>
      [] k = "COLON" -> <<":">>
      [] k = "LPAREN" -> <<"(">>
      [] k = "RPAREN" -> <<")">>
      [] k = "PASS" -> <<"p", "a", "s", "s">>
      [] k = "IF" -> <<"i", "f">>
      [] k = "ELIF" -> <<"e", "l", "i", "f">>
      [] k = "ELSE" -> <<"e", "l", "s", "e">>
      [] k = "WHILE" -> <<"w", "h", "i", "l", "e">>
      [] k = "FOR" -> <<"f", "o", "r">>
      [] k = "IN" -> <<"i", "n">>
      [] k = "DEF" -> <<"d", "e", "f">>
      [] k = "INDENT" -> <<" ">>
      [] k = "RETURN" -> <<"r", "e", "t", "u", "r", "n">>
      [] k = "NOT" -> <<"n", "o", "t">>
      [] OTHER -> <<>>

\* the tokens of the kinds ks, then EOF
TokensOf(ks) ==
    [i \in 1..Len(ks) + 1 |->
        IF i <= Len(ks) THEN Token(ks[i], KindLiteral(ks[i]), i - 1)
        ELSE Token("EOF", <<>>, Len(ks))]

\* the first lines of compound statements
CompoundHeaders ==
    {<<"IF", "IDENTIFIER", "COLON">>,
     <<"WHILE", "IDENTIFIER", "COLON">>,
     <<"WHILE", "IDENTIFIER", "LPAREN", "NUMBER", "COMMA", "NUMBER", "RPAREN", "COLON">>,
     <<"FOR", "IDENTIFIER", "IN", "IDENTIFIER", "COLON">>,
     <<"DEF", "IDENTIFIER", "LPAREN", "RPAREN", "COLON">>,
     <<"DEF", "IDENTIFIER", "LPAREN", "IDENTIFIER", "COMMA", "IDENTIFIER", "ASSIGN",
       "NUMBER", "RPAREN", "COLON">>}

\* the statements of an indented block: two simple lines and a nested loop
BodyStatements ==
    {<<"PASS", "NEW_LINE">>,
     <<"IDENTIFIER", "NEW_LINE">>,
     <<"WHILE", "IDENTIFIER", "COLON", "PASS", "NEW_LINE">>}

\* what follows a header: a statement on the same line, or an indented block
Bodies ==
    {<<"PASS", "NEW_LINE">>} \cup
    {<<"NEW_LINE", "INDENT">> \o Concat(ss) \o <<"DEDENT">> :
        ss \in SeqsUpTo(BodyStatements, MaxBodyStmts)}

\* what follows the body: nothing, an else part, an elif part
Tails ==
    {<<>>,
     <<"ELSE", "COLON", "PASS", "NEW_LINE">>,
     <<"ELSE", "COLON", "NEW_LINE", "INDENT", "PASS", "NEW_LINE", "DEDENT">>,
     <<"ELIF", "IDENTIFIER", "COLON", "PASS", "NEW_LINE">>}

\* compound statements, whole
CompoundKinds == {h \o b \o t : h \in CompoundHeaders, b \in Bodies, t \in Tails}

\* compound statements, whole and cut off after any token
TruncatedKinds ==
    UNION {{SubSeq(ks, 1, n) : n \in 0..Len(ks)} : ks \in CompoundKinds}

\* parameter lists: each parameter plain (FALSE) or with a default (TRUE)
ParamLists == SeqsUpTo(BOOLEAN, MaxParams)

\* the tokens of one parameter
ParamKinds(defaulted) ==
    IF defaulted THEN <<"IDENTIFIER", "ASSIGN", "NUMBER">> ELSE <<"IDENTIFIER">>

\* the tokens of a parameter list, commas between the parameters
RECURSIVE ParamListKinds(_)
ParamListKinds(ps) ==
    IF ps = <<>> THEN <<>>
    ELSE ParamKinds(Head(ps))
         \o (IF Len(ps) > 1 THEN <<"COMMA">> ELSE <<>>) \o ParamListKinds(Tail(ps))

\* "def f(<parameters>): pass", with a comma after the last parameter or not
DefKinds(ps, trailingComma) ==
    <<"DEF", "IDENTIFIER", "LPAREN">> \o ParamListKinds(ps)
    \o (IF trailingComma THEN <<"COMMA">> ELSE <<>>)
    \o <<"RPAREN", "COLON", "PASS", "NEW_LINE">>

DefSeqs == {DefKinds(ps, c) : ps \in ParamLists \ {<<>>}, c \in BOOLEAN}

\* what may stand where a block is due after the line break of a header
BlockFollowers == {"INDENT", "DEDENT", "PASS", "NEW_LINE", "IDENTIFIER"}

\* a header, a line break, and whatever follows it
BlockSeqs ==
    {h \o <<"NEW_LINE">> \o rest :
        h \in {<<"IF", "IDENTIFIER", "COLON">>, <<"WHILE", "IDENTIFIER", "COLON">>},
        rest \in SeqsUpTo(BlockFollowers, MaxBodyStmts)}

\* what may follow the return keyword
ReturnFollowers ==
    {"IDENTIFIER", "NUMBER", "NEW_LINE", "SEMICOLON", "SUM", "COMMA", "PASS"}

\* the return keyword and whatever follows it
ReturnSeqs == {<<"RETURN">> \o rest : rest \in SeqsUpTo(ReturnFollowers, MaxBodyStmts)}

\* expressions around the one operator that has a precedence and no handler
NotSeqs == SeqsUpTo({"IDENTIFIER", "NOT", "NEW_LINE"}, MaxToks)

TokenSeqs ==
    {TokensOf(ks) : ks \in SeqsUpTo(TokKinds, MaxToks) \cup TruncatedKinds \cup DefSeqs
                            \cup BlockSeqs \cup ReturnSeqs \cup NotSeqs}

-----------------------------------------------------------------------------
(* The state machine.  pc is the position of the one thread of control:    *)
(*   "lex"          in the loop of Tokenize                                *)
(*   "lexed"        Tokenize has returned                                  *)
(*   "file"         at the loop test of ParseFile's parseStatements(EOF)   *)
(*   "simple"       parseSimpleStatements is about to call                 *)
(*                  parseSimpleStatement                                   *)
(*   "exprs"        parseSimpleStatement has backtracked and is about to   *)
(*                  call parseExpressions                                  *)
(*   "afterSimple"  parseSimpleStatement has returned (stmt, err)          *)
(*   "simplesEnd"   parseSimpleStatements has left its loop                *)
(*   "done"         ParseFile has returned (BlockNode(file), err)          *)
(*   "panic"        the run was aborted by an index out of range           *)
(* Statements nested in a compound statement are parsed by the operators   *)
(* of the statement tier inside ParseCompound.                             *)

\* a Parser not yet constructed
NoParser == [tokens |-> <<>>, pos |-> -1, curToken |-> ZeroToken, peekToken |-> ZeroToken]

InitWith(l, p, at) ==
    /\ lexer = l
    /\ parser = p
    /\ pc = at
    /\ file = <<>>
    /\ block = <<>>
    /\ startPos = -1
    /\ stmt = Nil
    /\ err = NoErr

\* lexer.New(input) for a program
Init == \E input \in Programs : InitWith(NewLexer(input), NoParser, "lex")

\* lexer.New(input) for a lexer input
LexInit == \E input \in LexInputs : InitWith(NewLexer(input), NoParser, "lex")

\* parser.New(tokens) for a token sequence
ParseInit == \E tokens \in TokenSeqs : InitWith(NewLexer(<<>>), New(tokens), "file")

\* one iteration of the loop of Tokenize
TokenizeNext ==
    /\ pc = "lex"
    /\ lexer.pos < Len(lexer.input)
    /\ lexer' = tokenizeNext(lexer)
    /\ UNCHANGED <<parser, pc, file, block, startPos, stmt, err>>

\* the end of Tokenize
TokenizeReturn ==
    /\ pc = "lex"
    /\ ~(lexer.pos < Len(lexer.input))
    /\ lexer' = tokenizeEnd(lexer)
    /\ pc' = "lexed"
    /\ UNCHANGED <<parser, file, block, startPos, stmt, err>>

\* parser.New(tokens) on the lexer's tokens, and the call of ParseFile
NewParser ==
    /\ pc = "lexed"
    /\ parser' = New(lexer.tokens)
    /\ pc' = "file"
    /\ UNCHANGED <<lexer, file, block, startPos, stmt, err>>

\* where parseSimpleStatements goes at its loop test
SimpleLoopTest(p) == IF curTokenIs(p, "NEW_LINE") THEN "simplesEnd" ELSE "simple"

\* where an error returned to ParseFile ends the run
Ended(e) == IF e = Panic THEN "panic" ELSE "done"

\* parseStatements(EOF) finds the end token: ParseFile returns
ParseFileReturn ==
    /\ pc = "file"
    /\ curTokenIs(parser, "EOF")
    /\ pc' = "done"
    /\ UNCHANGED <<lexer, parser, file, block, startPos, stmt, err>>

\* parseStatement on a compound statement, up to parseStatements' append
ParseCompound ==
    /\ pc = "file"
    /\ ~curTokenIs(parser, "EOF")
    /\ isCompoundStatement(parser)
    /\ LET r == parseCompoundStatement(parser)
       IN  /\ parser' = r.p
           /\ err' = r.err
           /\ file' = IF r.err = NoErr THEN Append(file, r.node) ELSE file
           /\ pc' = IF r.err = NoErr THEN "file" ELSE Ended(r.err)
    /\ UNCHANGED <<lexer, block, startPos, stmt>>

\* parseStatement enters parseSimpleStatements
EnterSimpleStatements ==
    /\ pc = "file"
    /\ ~curTokenIs(parser, "EOF")
    /\ ~isCompoundStatement(parser)
    /\ block' = <<>>
    /\ pc' = SimpleLoopTest(parser)
    /\ UNCHANGED <<lexer, parser, file, startPos, stmt, err>>

\* parseSimpleStatement dispatches on a keyword
KeywordStatement ==
    /\ pc = "simple"
    /\ parser.curToken.Type \in controlStatementTokens \cup {"RETURN"}
    /\ LET r == IF parser.curToken.Type = "RETURN"
                THEN parseReturnStatement(parser)
                ELSE parseControlStatement(parser)
       IN  /\ parser' = r.p
           /\ stmt' = r.node
           /\ err' = r.err
    /\ pc' = "afterSimple"
    /\ UNCHANGED <<lexer, file, block, startPos>>

\* parseSimpleStatement's assignment attempt succeeds
AssignmentStatement ==
    /\ pc = "simple"
    /\ parser.curToken.Type \notin controlStatementTokens \cup {"RETURN"}
    /\ LET a == parseAssignmentStatement(parser)
       IN  /\ a.err = NoErr
           /\ parser' = a.p
           /\ stmt' = a.node
           /\ err' = NoErr
    /\ startPos' = parser.pos
    /\ pc' = "afterSimple"
    /\ UNCHANGED <<lexer, file, block>>

\* parseSimpleStatement's assignment attempt fails: setPos(startPos)
Backtrack ==
    /\ pc = "simple"
    /\ parser.curToken.Type \notin controlStatementTokens \cup {"RETURN"}
    /\ LET a == parseAssignmentStatement(parser)
           back == setPos(a.p, parser.pos)
       IN  /\ a.err # NoErr
           /\ parser' = back.p
           /\ pc' = IF back.panicked THEN "panic" ELSE "exprs"
           /\ err' = IF back.panicked THEN Panic ELSE err
    /\ startPos' = parser.pos
    /\ UNCHANGED <<lexer, file, block, stmt>>

\* parseSimpleStatement reparses the line as a bare expression list
ExpressionsStatement ==
    /\ pc = "exprs"
    /\ LET r == parseExpressions(parser)
       IN  /\ parser' = r.p
           /\ stmt' = r.node
           /\ err' = r.err
           /\ pc' = IF r.err = Panic THEN "panic" ELSE "afterSimple"
    /\ UNCHANGED <<lexer, file, block, startPos>>

\* parseSimpleStatements after a parseSimpleStatement call
AfterSimpleStatement ==
    /\ pc = "afterSimple"
    /\ IF err # NoErr
       THEN /\ pc' = "done"
            /\ UNCHANGED <<parser, block>>
       ELSE /\ block' = Append(block, stmt)
            /\ IF ~curTokenIs(parser, "SEMICOLON")
               THEN /\ pc' = "simplesEnd"
                    /\ UNCHANGED parser
               ELSE /\ parser' = nextToken(parser)
                    /\ pc' = SimpleLoopTest(parser')
    /\ UNCHANGED <<lexer, file, startPos, stmt, err>>

\* parseSimpleStatements after its loop, up to parseStatements' append
SimpleStatementsEnd ==
    /\ pc = "simplesEnd"
    /\ parser' = nextToken(parser)
    /\ IF Len(block) = 0
       THEN /\ err' = EmptyErr
            /\ pc' = "done"
            /\ UNCHANGED file
       ELSE /\ file' = Append(file, BlockNode(block))
            /\ pc' = "file"
            /\ UNCHANGED err
    /\ UNCHANGED <<lexer, block, startPos, stmt>>

LexNext == TokenizeNext \/ TokenizeReturn

ParseNext ==
    \/ ParseFileReturn
    \/ ParseCompound
    \/ EnterSimpleStatements
    \/ KeywordStatement
    \/ AssignmentStatement
    \/ Backtrack
    \/ ExpressionsStatement
    \/ AfterSimpleStatement
    \/ SimpleStatementsEnd

Next == LexNext \/ NewParser \/ ParseNext

\* source text to AST: Tokenize, parser.New, ParseFile
Spec == Init /\ [][Next]_vars

\* the lexer alone, on every small input
LexSpec == LexInit /\ [][LexNext]_vars

\* the parser alone, on every small token sequence that ends with EOF
ParseSpec == ParseInit /\ [][ParseNext]_vars

-----------------------------------------------------------------------------
(* Properties *)

\* the run has ended: ParseFile has returned or the run was aborted
Finished == pc \in {"done", "panic"}

\* the positions at which the parser holds a cursor
ParserRunning == pc \in {"file", "simple", "exprs", "afterSimple", "simplesEnd"}

\* the elements of a sequence
Range(s) == {s[i] : i \in DOMAIN s}

\* how many tokens of kind t the sequence ts holds
CountType(ts, t) == Cardinality({i \in DOMAIN ts : ts[i].Type = t})

\* C1: ParseFile never aborts with a runtime failure: every call of setPos
\* finds both tokens[i-1] and tokens[i], also when the parser backtracks with
\* the cursor on the final EOF token.
C1_NoRuntimeFailure == pc # "panic"

\* the source "x", a bare expression with no line break after it, aborts
C1_BareExpressionAborts == pc = "panic" /\ lexer.input = <<"x">>

\* what is left for the loop of Tokenize to do
LexMeasure(l) == 2 * (Len(l.input) - l.pos) + (IF l.startOfLine THEN 1 ELSE 0)

\* C2: Tokenize terminates on every input: what is left to do is never
\* negative, each tokenizeNext step makes it smaller (the cursor advances, or
\* the lexer leaves the start of a line), so the loop runs finitely many
\* times, and when Tokenize has returned pos >= len(input).
C2_TokenizeTerminates ==
    /\ [](LexMeasure(lexer) >= 0)
    /\ [][pc = "lex" /\ pc' = "lex" => LexMeasure(lexer') < LexMeasure(lexer)]_vars
    /\ [](pc = "lexed" => lexer.pos >= Len(lexer.input))

\* Tokenize has returned on a longest input that holds an unrecognized word
C2_ReturnedOnMalformed ==
    /\ pc = "lexed"
    /\ Len(lexer.input) = MaxLexLen
    /\ CountType(lexer.tokens, "UNKNOWN") > 0

\* the call returned an error or consumed at least one token
Consumes(p, r) == r.err # NoErr \/ r.p.pos > p.pos

\* every statement- or expression-parsing call made at the cursor p consumes
\* a token or returns an error
CallsConsume(p) ==
    /\ Consumes(p, parseExpression(p, LOWEST))
    /\ Consumes(p, parseExpressions(p))
    /\ Consumes(p, parseAssignmentStatement(p))
    /\ Consumes(p, parseSimpleStatement(p))
    /\ Consumes(p, parseSimpleStatements(p))
    /\ Consumes(p, parseCompoundStatement(p))
    /\ Consumes(p, parseStatement(p))
    /\ Consumes(p, parseBlock(p))

\* where the running call stands in one pass of the statement loops
PcRank ==
    CASE pc = "file" -> 5
      [] pc = "simple" -> 4
      [] pc = "exprs" -> 3
      [] pc = "afterSimple" -> 2
      [] pc = "simplesEnd" -> 1
      [] OTHER -> 0

\* what is left for ParseFile to do: the tokens ahead of the cursor, then the
\* steps left in the current pass
ParseMeasure ==
    IF Finished THEN 0
    ELSE 6 * (Len(parser.tokens) + 1 - parser.pos) + PcRank

\* C3: ParseFile finishes on every token sequence that ends with EOF: every
\* statement- or expression-parsing call consumes at least one token or
\* returns an error, what is left to do is never negative and every step
\* makes it smaller, so no loop iterates forever.
C3_ParseFileTerminates ==
    /\ [](ParserRunning => CallsConsume(parser))
    /\ [](ParseMeasure >= 0)
    /\ [][ParseMeasure' < ParseMeasure]_vars

\* ParseFile has returned a function definition with two parameters and a
\* block of MaxBodyStmts statements, the last one a nested loop
C3_ReturnedNestedLoops ==
    /\ pc = "done"
    /\ err = NoErr
    /\ Len(file) = 1
    /\ file[1].type = "FunctionDef"
    /\ Len(file[1].Params) = 2
    /\ Len(file[1].Body.Statements) = MaxBodyStmts
    /\ Last(file[1].Body.Statements).type = "While"

\* C4: the token sequence returned by Tokenize holds exactly one EOF token,
\* and it is the last token, also for inputs with lexical errors.
C4_OneEOFLast ==
    pc = "lexed" =>
        /\ Len(lexer.tokens) > 0
        /\ Last(lexer.tokens).Type = "EOF"
        /\ CountType(lexer.tokens, "EOF") = 1

\* Tokenize has returned on an input with a lexical error and open blocks
C4_ReturnedWithErrors ==
    /\ pc = "lexed"
    /\ lexer.errors # <<>>
    /\ CountType(lexer.tokens, "DEDENT") > 1

\* C5: the token stream returned by Tokenize holds as many INDENT tokens as
\* DEDENT tokens, and the indentation stack is back at [0] at EOF (for every
\* input, so for those with consistent space-only indentation).
C5_IndentsBalanced ==
    pc = "lexed" =>
        /\ CountType(lexer.tokens, "INDENT") = CountType(lexer.tokens, "DEDENT")
        /\ lexer.indentStack = <<0>>

\* Tokenize has returned on a space-indented input with two nested blocks
C5_ReturnedNested ==
    /\ pc = "lexed"
    /\ "\t" \notin Range(lexer.input)
    /\ lexer.errors = <<>>
    /\ CountType(lexer.tokens, "INDENT") = 2

\* C6: the indentation stack is never empty, its bottom element is 0 and
\* its elements increase strictly from bottom to top, also after a dedent
\* that matches no open level.
C6_IndentStackIncreasing ==
    /\ Len(lexer.indentStack) > 0
    /\ lexer.indentStack[1] = 0
    /\ \A i, j \in DOMAIN lexer.indentStack :
           i < j => lexer.indentStack[i] < lexer.indentStack[j]

\* the lexer is past a dedent that matched no open level, in an open block
C6_AfterUnmatchedDedent ==
    /\ pc = "lex"
    /\ lexer.errors # <<>>
    /\ Len(lexer.indentStack) > 1

\* the node of an operand of an infix source
OperandNode(s) == IF s[1] \in Digit THEN NumberNode(s) ELSE IdentifierNode(s)

\* the token kind the lexer gives the text of an operator
OperatorKind(op) == tokenPatterns[FirstMatch(op)].tType

\* the root ParseFile builds for a source that is one bare expression
BareExpression(n) == <<BlockNode(<<ExpressionsNode(<<n>>)>>)>>

\* a op1 (b op2 c)
RightNested(o, op1, op2) ==
    InfixNode(OperandNode(o[1]), op1, InfixNode(OperandNode(o[2]), op2, OperandNode(o[3])))

\* the text "(a op1 (b op2 c))"
RightNestedText(o, op1, op2) ==
    <<"(">> \o o[1] \o <<" ">> \o op1 \o <<" ">> \o
    <<"(">> \o o[2] \o <<" ">> \o op2 \o <<" ">> \o o[3] \o <<")", ")">>

\* the run on the source text ended with the bare expression n as its root
YieldsExpression(n) == pc = "done" /\ err = NoErr /\ file = BareExpression(n)

\* C7: a source "a op1 b op2 c" where op2 is of a stronger precedence class
\* than op1 yields the Infix node of op1 with the Infix node of op2 as its
\* right child, which serializes to "(a op1 (b op2 c))".
C7_StrongerBindsTighter ==
    \A o \in Operands, op1 \in InfixOps, op2 \in InfixOps :
        (/\ lexer.input = InfixSource(o, op1, op2)
         /\ getPrecedence(OperatorKind(op2)) > getPrecedence(OperatorKind(op1))
         /\ Finished)
        => /\ YieldsExpression(RightNested(o, op1, op2))
           /\ String(RightNested(o, op1, op2)).out = RightNestedText(o, op1, op2)

\* the run on the source 1 + 2 * 3 was aborted
C7_SumProductAborts ==
    pc = "panic" /\ lexer.input = <<"1", " ", "+", " ", "2", " ", "*", " ", "3">>

\* the same, for the sources that end with a line break: these all yield
\* the nesting C7 describes
C7_HoldsBeforeLineBreak ==
    \A o \in Operands, op1 \in InfixOps, op2 \in InfixOps :
        (/\ lexer.input = InfixSource(o, op1, op2) \o <<"\n">>
         /\ getPrecedence(OperatorKind(op2)) > getPrecedence(OperatorKind(op1))
         /\ Finished)
        => /\ YieldsExpression(RightNested(o, op1, op2))
           /\ String(RightNested(o, op1, op2)).out = RightNestedText(o, op1, op2)

\* C8: a source "a ** b ** c" yields the outer ** node with a as its left
\* child and the node b ** c as its right child.
C8_ExpRightAssociative ==
    \A o \in Operands :
        (lexer.input = InfixSource(o, <<"*", "*">>, <<"*", "*">>) /\ Finished)
        => YieldsExpression(RightNested(o, <<"*", "*">>, <<"*", "*">>))

\* the run on the source 2 ** 3 ** 2 was aborted
C8_ExpChainAborts ==
    /\ pc = "panic"
    /\ lexer.input = <<"2", " ", "*", "*", " ", "3", " ", "*", "*", " ", "2">>

\* the same, for the sources that end with a line break: these all yield
\* the nesting C8 describes
C8_HoldsBeforeLineBreak ==
    \A o \in Operands :
        (lexer.input = InfixSource(o, <<"*", "*">>, <<"*", "*">>) \o <<"\n">> /\ Finished)
        => YieldsExpression(RightNested(o, <<"*", "*">>, <<"*", "*">>))

\* C9: the source "x = 1" yields an Assignment node whose Target is the
\* Identifier x, and the source "x + 1" yields a bare expression list that
\* holds the Infix node, not an Assignment and not an error.
C9_AssignmentOrExpression ==
    /\ (lexer.input = <<"x", " ", "=", " ", "1">> /\ Finished)
       => /\ pc = "done"
          /\ err = NoErr
          /\ file = <<BlockNode(<<AssignmentNode(IdentifierNode(<<"x">>), <<"=">>,
                                                 NumberNode(<<"1">>))>>)>>
    /\ (lexer.input = <<"x", " ", "+", " ", "1">> /\ Finished)
       => YieldsExpression(InfixNode(IdentifierNode(<<"x">>), <<"+">>,
                                     NumberNode(<<"1">>)))

\* the run on the source x + 1 was aborted
C9_ExpressionAborts == pc = "panic" /\ lexer.input = <<"x", " ", "+", " ", "1">>

\* the source x + 1 followed by a line break yields the bare expression list
C9_HoldsBeforeLineBreak ==
    (lexer.input = <<"x", " ", "+", " ", "1", "\n">> /\ Finished)
    => YieldsExpression(InfixNode(IdentifierNode(<<"x">>), <<"+">>,
                                  NumberNode(<<"1">>)))

\* C10: when the assignment attempt of parseSimpleStatement fails and
\* setPos(startPos) returns, pos, curToken and peekToken are what they were
\* before the attempt and the tokens are unchanged.
C10_BacktrackRestores ==
    [][(pc = "simple" /\ pc' = "exprs") => parser' = parser]_vars

\* the parser has backtracked over an attempt that had consumed x + 1
C10_BacktrackedOverExpression ==
    /\ pc = "exprs"
    /\ startPos = parser.pos
    /\ parser.curToken.Type = "IDENTIFIER"
    /\ parser.peekToken.Type = "SUM"
    /\ parser.pos + 2 < Len(parser.tokens)
    /\ parser.tokens[parser.pos + 2].Type = "NUMBER"


-----------------------------------------------------------------------------
\* C11: tokenizing then parsing the if/elif/else source with indented bodies
\* and a final line break returns no error and one If node whose Else slot
\* holds a nested If node whose own Else slot holds a Block.
IfElifElseTree(f) ==
    /\ Len(f) = 1
    /\ f[1].type = "If"
    /\ f[1].Else.type = "If"
    /\ f[1].Else.Else.type = "Block"

C11_IfElifElseNests ==
    (Finished /\ lexer.input = IfSource(TRUE, TRUE)) =>
        (pc = "done" /\ err = NoErr /\ IfElifElseTree(file))

\* the run on that source has ended
C11_IfElifElseEnded == Finished /\ lexer.input = IfSource(TRUE, TRUE)

\* the same source without its final line break does yield the claimed tree
C11_HoldsWithoutFinalLineBreak ==
    (Finished /\ lexer.input = Front(IfSource(TRUE, TRUE))) =>
        (pc = "done" /\ err = NoErr /\ IfElifElseTree(file))


-----------------------------------------------------------------------------
\* C12: parseParams returns an error whenever a parameter without a default
\* follows a parameter with one, and no error for every list of identifier
\* parameters whose defaulted parameters all come after the plain ones.
PlainAfterDefault(ps) == \E i, j \in DOMAIN ps : i < j /\ ps[i] /\ ~ps[j]

\* the parser as parseFunctionDef leaves it when it calls parseParams
AtParams(tokens) == nextToken(nextToken(nextToken(New(tokens))))

\* the token sequences of the definitions with those parameter lists
DefTokenSeqs == {TokensOf(ks) : ks \in DefSeqs}

C12_DefaultsMustTrail ==
    parser.tokens \in DefTokenSeqs =>
      \A ps \in ParamLists \ {<<>>}, c \in BOOLEAN :
        parser.tokens = TokensOf(DefKinds(ps, c)) =>
            /\ (parseParams(AtParams(parser.tokens)).err # NoErr) = PlainAfterDefault(ps)
            /\ ~PlainAfterDefault(ps) =>
                   Len(parseParams(AtParams(parser.tokens)).node) = Len(ps)
            /\ pc = "done" => ((err # NoErr) = PlainAfterDefault(ps))

\* a definition whose second parameter has a default and whose third has none
\* was rejected
C12_RejectedPlainAfterDefault ==
    /\ pc = "done"
    /\ parser.tokens = TokensOf(DefKinds(<<FALSE, TRUE, FALSE>>, FALSE))
    /\ err # NoErr

\* a definition whose defaults all trail was accepted
C12_AcceptedTrailingDefaults ==
    /\ pc = "done"
    /\ parser.tokens = TokensOf(DefKinds(<<FALSE, TRUE, TRUE>>, TRUE))
    /\ err = NoErr


-----------------------------------------------------------------------------
\* C13: when the leading whitespace of a line mixes tabs and spaces, Tokenize
\* appends an entry to its error list.
LineStarts(s) == {i \in 1..Len(s) : i = 1 \/ s[i - 1] = "\n"}

\* the line of s that starts at i is not blank and is indented with both
\* spaces and tabs
MixedIndent(s, i) ==
    LET rest == Drop(s, i - 1)
        lead == SubSeq(rest, 1, RunLen(rest, {" ", "\t"}))
    IN  /\ MatchBlankLine(rest) = 0
        /\ " " \in Range(lead)
        /\ "\t" \in Range(lead)

C13_MixedIndentReported ==
    (pc = "lexed" /\ \E i \in LineStarts(lexer.input) : MixedIndent(lexer.input, i))
        => lexer.errors # <<>>

\* the line " \tx" was tokenized and nothing was reported
C13_MixedIndentSilent ==
    /\ pc = "lexed"
    /\ lexer.input = <<" ", "\t", "x">>
    /\ lexer.errors = <<>>
    /\ lexer.tokens[1].Type = "INDENT"


-----------------------------------------------------------------------------
\* C14: on a line whose leading-whitespace width is below the stack top,
\* tokenizeNext pops one level and emits one DEDENT per pop until the top is
\* at most the width, appends exactly one unindent error when the top then
\* differs from the width, and goes on scanning: the rest of the line and the
\* later lines are tokenized.
LineWidth(l) == RunLen(Drop(l.input, l.pos), {" ", "\t"})

\* tokenizeNext is about to take the dedent branch
AtDedent(l) ==
    /\ l.pos < Len(l.input)
    /\ l.startOfLine
    /\ MatchBlankLine(Drop(l.input, l.pos)) = 0
    /\ LineWidth(l) < Last(l.indentStack)

\* the levels of the stack that are at most w
LevelsUpTo(stack, w) == Cardinality({i \in DOMAIN stack : stack[i] <= w})

DedentStep(l, n) ==
    LET w == LineWidth(l)
        k == LevelsUpTo(l.indentStack, w)
        pops == Len(l.indentStack) - k
    IN  /\ n.indentStack = SubSeq(l.indentStack, 1, k)
        /\ n.tokens = l.tokens \o [i \in 1..pops |-> Token("DEDENT", <<>>, l.pos)]
        /\ n.errors = IF l.indentStack[k] # w THEN Append(l.errors, UnindentError)
                      ELSE l.errors
        /\ n.pos = l.pos + w
        /\ ~n.startOfLine

C14_DedentPopsAndReports ==
    /\ [][(pc = "lex" /\ AtDedent(lexer)) => DedentStep(lexer, lexer')]_vars
    /\ [](pc = "lexed" => lexer.pos >= Len(lexer.input))

\* a line matched no open level, and the rest of it and a later line were
\* tokenized
C14_ScannedPastUnmatchedDedent ==
    /\ pc = "lexed"
    /\ lexer.errors = <<UnindentError>>
    /\ \E i \in DOMAIN lexer.tokens :
          /\ lexer.tokens[i].Type = "DEDENT"
          /\ Cardinality({j \in DOMAIN lexer.tokens :
                 j > i /\ lexer.tokens[j].Type = "IDENTIFIER"}) = 2


-----------------------------------------------------------------------------
\* C15: for a program that ParseFile accepts without error, serializing the
\* returned AST with String() and then tokenizing and parsing that text
\* succeeds and yields an equivalent tree: the same statements in the same
\* order with the same nesting.
Reparsed(text) == parseStatements(New(Tokenize(NewLexer(text)).tokens), "EOF", <<>>)

\* a tree with the blocks that only group the statements of one line merged
\* into the block around them
RECURSIVE Normal(_)
RECURSIVE Splice(_)
Splice(stmts) ==
    IF stmts = <<>> THEN <<>>
    ELSE (IF Head(stmts).type = "Block" THEN Splice(Head(stmts).Statements)
          ELSE <<Normal(Head(stmts))>>) \o Splice(Tail(stmts))

Normal(n) ==
    CASE n.type = "Block" -> BlockNode(Splice(n.Statements))
      [] n.type \in {"If", "While", "For"} ->
            [n EXCEPT !.Body = Normal(@), !.Else = Normal(@)]
      [] n.type = "FunctionDef" -> [n EXCEPT !.Body = Normal(@)]
      [] OTHER -> n

RoundTrips(root) ==
    /\ ~String(root).panicked
    /\ Reparsed(String(root).out).err = NoErr
    /\ Normal(Reparsed(String(root).out).node) = Normal(root)

C15_RoundTrip == (pc = "done" /\ err = NoErr) => RoundTrips(BlockNode(file))

\* the accepted program "x" / "pass" was serialized as the one line "xpass",
\* which parses to a single expression statement
C15_ExpressionRunsIntoNext ==
    /\ pc = "done"
    /\ err = NoErr
    /\ lexer.input = <<"x", "\n", "p", "a", "s", "s">>
    /\ Len(file) = 2
    /\ String(BlockNode(file)).out = <<"x", "p", "a", "s", "s", "\n">>
    /\ Reparsed(String(BlockNode(file)).out).err = NoErr
    /\ Len(Reparsed(String(BlockNode(file)).out).node.Statements) = 1

\* programs made of assignments and keyword statements only do round-trip
C15_HoldsForAssignmentsAndKeywords ==
    (/\ pc = "done"
     /\ err = NoErr
     /\ \A i \in DOMAIN file :
            /\ file[i].type = "Block"
            /\ \A j \in DOMAIN file[i].Statements :
                   file[i].Statements[j].type \in {"Assignment", "Control", "Return"})
        => RoundTrips(BlockNode(file))


-----------------------------------------------------------------------------
\* C16: the token parseSimpleStatements consumes as the end of the line is
\* always NEW_LINE: a line is accepted only if its last statement (and an
\* optional ";") is followed by NEW_LINE, and any other token there is an
\* error, not a token thrown away.
C16_LineEndsWithNewLine ==
    pc = "simplesEnd" => parser.curToken.Type = "NEW_LINE"

\* "pass : pass" was accepted as two statements: the ":" was thrown away
C16_ColonDiscarded ==
    /\ pc = "done"
    /\ err = NoErr
    /\ parser.tokens = TokensOf(<<"PASS", "COLON", "PASS">>)
    /\ file = <<BlockNode(<<ControlNode(<<"p", "a", "s", "s">>)>>),
                BlockNode(<<ControlNode(<<"p", "a", "s", "s">>)>>)>>


-----------------------------------------------------------------------------
\* C17: in parseSimpleStatement the fallback that reparses the line as a bare
\* expression list is taken only when the token after the first expression is
\* not an assignment operator; with an assignment operator there, the
\* statement is an Assignment node or a parse error.
AssignFollowsFirstExpression(p) ==
    /\ parseExpression(p, LOWEST).err = NoErr
    /\ curTokenIs(parseExpression(p, LOWEST).p, "ASSIGN")

C17_FallbackOnlyWithoutAssign ==
    /\ pc = "exprs" => ~AssignFollowsFirstExpression(parser)
    /\ (pc = "afterSimple" /\ err = NoErr /\ stmt.type = "Expressions")
           => ~AssignFollowsFirstExpression(setPos(parser, startPos).p)

\* "x = pass" was accepted: x as an expression statement, then pass
C17_AssignWithoutValueAccepted ==
    /\ pc = "done"
    /\ err = NoErr
    /\ parser.tokens = TokensOf(<<"IDENTIFIER", "ASSIGN", "PASS">>)
    /\ file[1] = BlockNode(<<ExpressionsNode(<<IdentifierNode(<<"x">>)>>)>>)

-----------------------------------------------------------------------------
\* C18: parseExpressions yields two or more elements only when every two
\* adjacent elements are separated by a COMMA token, and it returns an error
\* whenever it would yield no element.
RECURSIVE CommaSeparated(_, _)
\* the n expressions that start at p have a COMMA between each two
CommaSeparated(p, n) ==
    IF n <= 1 THEN TRUE
    ELSE /\ curTokenIs(parseExpression(p, LOWEST).p, "COMMA")
         /\ CommaSeparated(nextToken(parseExpression(p, LOWEST).p), n - 1)

C18_ExpressionsCommaSeparated ==
    (pc = "afterSimple" /\ stmt.type = "Expressions") =>
        /\ err = NoErr =>
               CommaSeparated(setPos(parser, startPos).p, Len(stmt.Expressions))
        /\ stmt.Expressions = <<>> => err # NoErr

\* "x x" on one line was accepted as a list of two expressions
C18_AdjacentExpressionsAccepted ==
    /\ pc = "done"
    /\ err = NoErr
    /\ parser.tokens = TokensOf(<<"IDENTIFIER", "IDENTIFIER", "NEW_LINE">>)
    /\ file = <<BlockNode(<<ExpressionsNode(<<IdentifierNode(<<"x">>),
                                                IdentifierNode(<<"x">>)>>)>>)>>

\* the second half holds: a list that yields no element is an error
C18_EmptyListIsError ==
    (pc = "afterSimple" /\ stmt.type = "Expressions" /\ stmt.Expressions = <<>>)
        => err # NoErr


-----------------------------------------------------------------------------
\* C19: outside start-of-line mode, every line break that is not part of a
\* backslash line-continuation makes tokenizeNext emit exactly one NEW_LINE
\* token and set start-of-line mode, whatever whitespace precedes it; other
\* whitespace is consumed without emitting or suppressing any token.
\* the line breaks of the input in from + 1 .. to that no backslash precedes
BareBreaks(input, from, to) ==
    {j \in from + 1 .. to : input[j] = "\n" /\ ~(j > 1 /\ input[j - 1] = "\\")}

\* the step from l to n consumed nothing but spaces, tabs and returns
OnlyBlanks(l, n) ==
    \A j \in l.pos + 1 .. n.pos : l.input[j] \in Whitespace \ {"\n"}

PatternStep(l, n) ==
    LET breaks == Cardinality(BareBreaks(l.input, l.pos, n.pos))
    IN  /\ breaks > 0 =>
               /\ n.tokens = Append(l.tokens, Token("NEW_LINE", <<"\n">>, n.pos - 1))
               /\ breaks = 1
               /\ n.startOfLine
        /\ OnlyBlanks(l, n) => (n.tokens = l.tokens /\ ~n.startOfLine)

C19_LineBreakEmitsNewLine ==
    [][(pc = "lex" /\ pc' = "lex" /\ ~lexer.startOfLine) => PatternStep(lexer, lexer')]_vars

\* "x", a space and a line break were tokenized with no NEW_LINE token
C19_LineBreakSwallowed ==
    /\ pc = "lexed"
    /\ lexer.input = <<"x", " ", "\n">>
    /\ CountType(lexer.tokens, "NEW_LINE") = 0

\* a line break at the cursor that starts no line-continuation does emit
\* NEW_LINE, and so does every step that starts on another character than a
\* blank
C19_HoldsWithoutBlanksBeforeBreak ==
    [][(/\ pc = "lex"
        /\ pc' = "lex"
        /\ ~lexer.startOfLine
        /\ MatchContinuation(Drop(lexer.input, lexer.pos)) = 0
        /\ lexer.input[lexer.pos + 1] \in {"\n"} \cup (LexChars \ Whitespace))
          => PatternStep(lexer, lexer')]_vars

-----------------------------------------------------------------------------
\* C20: every UNKNOWN token in the output of Tokenize has a literal of exactly
\* one character, the cursor advancing by one for it.
C20_UnknownIsOneCharacter ==
    \A i \in DOMAIN lexer.tokens :
        lexer.tokens[i].Type = "UNKNOWN" => Len(lexer.tokens[i].Literal) = 1

\* "@@" became one UNKNOWN token of two characters
C20_UnknownOfTwoCharacters ==
    /\ pc = "lexed"
    /\ lexer.input = <<"@", "@">>
    /\ lexer.tokens[1] = Token("UNKNOWN", <<"@", "@">>, 0)


-----------------------------------------------------------------------------
\* C21: a backslash immediately followed by a line break emits no token and
\* does not enter start-of-line mode: no NEW_LINE, INDENT or DEDENT is emitted
\* for it, and the leading whitespace of the next physical line does not
\* change the indentation stack.
\* the character at j is part of a comment
InComment(input, j) ==
    \E k \in 1..j : input[k] = "#" /\ \A m \in k..j : input[m] # "\n"

\* the line breaks of the input that directly follow a backslash outside a
\* comment
ContinuationBreaks(input) ==
    {j \in 2..Len(input) :
        input[j] = "\n" /\ input[j - 1] = "\\" /\ ~InComment(input, j - 1)}

C21_ContinuationIsInvisible ==
    \A j \in ContinuationBreaks(lexer.input) :
        /\ \A i \in DOMAIN lexer.tokens :
              /\ ~(lexer.tokens[i].Type = "NEW_LINE" /\ lexer.tokens[i].Pos = j - 1)
              /\ ~(/\ lexer.tokens[i].Type \in {"INDENT", "DEDENT"}
                    /\ lexer.tokens[i].Pos = j
                    /\ j < Len(lexer.input))
        /\ lexer.pos = j => ~lexer.startOfLine

\* "@", a backslash and a line break were tokenized as UNKNOWN, NEW_LINE
C21_ContinuationAfterUnknownBreaksLine ==
    /\ pc = "lexed"
    /\ lexer.input = <<"@", "\\", "\n">>
    /\ lexer.tokens[1] = Token("UNKNOWN", <<"@", "\\">>, 0)
    /\ lexer.tokens[2].Type = "NEW_LINE"

\* whenever the cursor is on the backslash of a continuation, outside
\* start-of-line mode, the step consumes it and changes nothing else
C21_HoldsAtCursor ==
    [][(/\ pc = "lex"
        /\ ~lexer.startOfLine
        /\ HasPrefix(Drop(lexer.input, lexer.pos), <<"\\", "\n">>))
          => lexer' = [lexer EXCEPT !.pos = @ + 2]]_vars


\* the continuation is invisible as long as no UNKNOWN token swallowed its
\* backslash
C21_HoldsWithoutLongUnknown ==
    (\A i \in DOMAIN lexer.tokens :
        lexer.tokens[i].Type = "UNKNOWN" => Len(lexer.tokens[i].Literal) = 1)
      => C21_ContinuationIsInvisible


-----------------------------------------------------------------------------
\* C22: at start-of-line, a line that contains only whitespace or only a
\* comment leaves the indentation stack, the token list and the error list
\* unchanged, whatever its leading-whitespace width: only the cursor
\* advances, past the line.
\* the width of the first line of s, its line break excluded
FirstLineWidth(s) ==
    LET breaks == {i \in 1..Len(s) : s[i] = "\n"}
    IN  IF breaks = {} THEN Len(s) ELSE Min(breaks) - 1

\* the first line of s holds whitespace only, or whitespace and a comment
BlankOrCommentLine(s) ==
    LET line == SubSeq(s, 1, FirstLineWidth(s))
        lead == RunLen(line, Whitespace)
    IN  lead = Len(line) \/ line[lead + 1] = "#"

\* the cursor position just after the first line of s and its line break
PastFirstLine(l) ==
    LET s == Drop(l.input, l.pos)
    IN  l.pos + FirstLineWidth(s) + (IF FirstLineWidth(s) < Len(s) THEN 1 ELSE 0)

C22_BlankLineIsInvisible ==
    [][(/\ pc = "lex"
        /\ lexer.pos < Len(lexer.input)
        /\ lexer.startOfLine
        /\ BlankOrCommentLine(Drop(lexer.input, lexer.pos)))
          => /\ lexer'.indentStack = lexer.indentStack
             /\ lexer'.tokens = lexer.tokens
             /\ lexer'.errors = lexer.errors
             /\ lexer'.startOfLine
             /\ lexer'.input = lexer.input
             /\ lexer'.pos >= PastFirstLine(lexer)]_vars

\* an indented comment line, deeper than the open block, was skipped inside
\* that block: the block is still open at its own level and nothing was
\* emitted for the comment
C22_SkippedIndentedComment ==
    /\ lexer.input = <<" ", "x", "\n", " ", " ", "#">>
    /\ lexer.pos = 6
    /\ lexer.indentStack = <<0, 1>>
    /\ Len(lexer.tokens) = 3


-----------------------------------------------------------------------------
\* C23: when the body of a compound statement starts with NEW_LINE,
\* parseBlock returns an error unless the next token is INDENT: DEDENT, EOF
\* or any other token where INDENT is required never yields a successfully
\* parsed block.
\* the positions of the line breaks that directly follow a colon
BodyStarts(p) ==
    {i \in 2..Len(p.tokens) - 1 :
        p.tokens[i].Type = "NEW_LINE" /\ p.tokens[i - 1].Type = "COLON"}

\* the parser with its cursor on the i-th token
CursorAt(p, i) ==
    [p EXCEPT !.pos = i, !.curToken = p.tokens[i], !.peekToken = p.tokens[i + 1]]

ExpectedIndent(got) == [kind |-> "expected", want |-> "INDENT", got |-> got]

\* parseBlock called on the line break that is the i-th token
BlockRequiresIndent(p, i) ==
    IF p.tokens[i + 1].Type # "INDENT"
    THEN /\ parseBlock(CursorAt(p, i)).err = ExpectedIndent(p.tokens[i + 1].Type)
         /\ parseBlock(CursorAt(p, i)).p.pos = i + 1
    ELSE parseBlock(CursorAt(p, i)).err # ExpectedIndent("INDENT")

\* the statement at the cursor is "if x:" or "while x:" and a line break
\* that no INDENT follows
HeaderWithoutIndent(p) ==
    /\ p.pos + 4 <= Len(p.tokens)
    /\ p.curToken.Type \in {"IF", "WHILE"}
    /\ p.tokens[p.pos + 1].Type = "IDENTIFIER"
    /\ p.tokens[p.pos + 2].Type = "COLON"
    /\ p.tokens[p.pos + 3].Type = "NEW_LINE"
    /\ p.tokens[p.pos + 4].Type # "INDENT"

C23_BlockRequiresIndent ==
    /\ (pc = "file" /\ parser = New(parser.tokens))
          => \A i \in BodyStarts(parser) : BlockRequiresIndent(parser, i)
    /\ (pc = "done" /\ HeaderWithoutIndent(New(parser.tokens)))
          => /\ err = ExpectedIndent(parser.tokens[5].Type)
             /\ file = <<>>

\* "while x:", a line break and a statement that is not indented: rejected
\* at the statement
C23_RejectedUnindentedBody ==
    /\ pc = "done"
    /\ parser.tokens = TokensOf(<<"WHILE", "IDENTIFIER", "COLON", "NEW_LINE", "PASS",
                                  "NEW_LINE">>)
    /\ err = ExpectedIndent("PASS")


-----------------------------------------------------------------------------
\* C24: a return keyword not followed by a value expression (followed
\* directly by NEW_LINE, ";" or EOF) makes parseReturnStatement return an
\* error, and that error reaches the caller of ParseFile; a Return node is
\* produced without error only when an expression follows the keyword.
ValueEnders == {"NEW_LINE", "SEMICOLON", "EOF"}

\* parseSimpleStatement is about to dispatch on the return keyword
AtReturn == pc = "simple" /\ parser.curToken.Type = "RETURN"

C24_ReturnStep ==
    [][AtReturn =>
         /\ pc' = "afterSimple"
         /\ parser.peekToken.Type \in ValueEnders
               => err' = NoPrefixErr(parser.peekToken.Type)
         /\ err' = NoErr
               => /\ parser.peekToken.Type \in prefixTokens
                  /\ stmt'.type = "Return"
                  /\ stmt'.Value # Nil
                  /\ parser'.pos > parser.pos + 1]_vars

C24_ReturnNeedsValue ==
    /\ C24_ReturnStep
    /\ [](  (/\ pc = "done"
              /\ parser.tokens[1].Type = "RETURN"
              /\ parser.tokens[2].Type \in ValueEnders)
            => err = NoPrefixErr(parser.tokens[2].Type))

\* "return" and a line break: ParseFile has returned the error
C24_RejectedBareReturn ==
    /\ pc = "done"
    /\ parser.tokens = TokensOf(<<"RETURN", "NEW_LINE">>)
    /\ err = NoPrefixErr("NEW_LINE")

\* "return x": a Return node with its value, without error
C24_AcceptedReturnWithValue ==
    /\ pc = "afterSimple"
    /\ parser.tokens = TokensOf(<<"RETURN", "IDENTIFIER", "NEW_LINE">>)
    /\ stmt = ReturnNode(IdentifierNode(<<"x">>))
    /\ err = NoErr


-----------------------------------------------------------------------------
\* C25: in parseExpression, when the current token has no registered prefix
\* handler, or has a precedence above the caller's threshold but no
\* registered infix handler, the call returns an error naming the token kind
\* and does not crash; it never returns success while leaving such a token
\* unhandled.
\* the token the call r stopped at is above the threshold and has no infix
\* handler
StoppedAtUnhandled(r, precedence) ==
    /\ precedence < getPrecedence(r.p.curToken.Type)
    /\ r.p.curToken.Type \notin infixTokens

\* parseExpression is about to be called with the threshold LOWEST
C25_MissingHandlerIsError ==
    pc = "exprs" =>
        /\ parseExpression(parser, LOWEST).err # Panic
        /\ parser.curToken.Type \notin prefixTokens
              => parseExpression(parser, LOWEST).err = NoPrefixErr(parser.curToken.Type)
        /\ StoppedAtUnhandled(parseExpression(parser, LOWEST), LOWEST)
              => parseExpression(parser, LOWEST).err # NoErr

\* "x not ...": the expression x was returned without error with the cursor
\* left on the operator
C25_OperatorLeftUnhandled ==
    /\ pc = "afterSimple"
    /\ err = NoErr
    /\ stmt = ExpressionsNode(<<IdentifierNode(<<"x">>)>>)
    /\ parser.curToken.Type = "NOT"

\* the prefix half of the claim holds: a token without a prefix handler is
\* reported by kind
C25_HoldsForMissingPrefix ==
    pc = "exprs" =>
        /\ parseExpression(parser, LOWEST).err # Panic
        /\ parser.curToken.Type \notin prefixTokens
              => parseExpression(parser, LOWEST).err = NoPrefixErr(parser.curToken.Type)


-----------------------------------------------------------------------------
\* C26: every parse function that detects a missing expected token returns,
\* together with the error, a non-nil partial node holding the children
\* parsed so far (parseBlock on a missing INDENT, parseElseBlock,
\* parseForStatement on a missing "in" or ":", parseExpression on a missing
\* prefix handler, and the if/while/def sub-parsers).
\* the call r either succeeded or returned a node with its error
PartialOnError(r) == r.err \notin {NoErr, Panic} => r.node # Nil

\* ParseFile has returned and the first statement of the file was compound
AfterCompound == pc = "done" /\ isCompoundStatement(New(parser.tokens))

C26_ErrorComesWithPartialNode ==
    AfterCompound => PartialOnError(parseCompoundStatement(New(parser.tokens)))

\* "for x" and the end of the input: the error for the missing "in" has
\* reached ParseFile, and parseForStatement returned no node with it
C26_ForWithoutInReturnsNil ==
    /\ pc = "done"
    /\ parser.tokens = TokensOf(<<"FOR", "IDENTIFIER">>)
    /\ err = [kind |-> "expected", want |-> "IN", got |-> "EOF"]
    /\ parseForStatement(New(parser.tokens)).node = Nil

\* the if, while and def sub-parsers themselves return their node with the
\* error
C26_HoldsForIfWhileDef ==
    (AfterCompound /\ parser.tokens[1].Type # "FOR")
        => PartialOnError(parseCompoundStatement(New(parser.tokens)))

\* parseBlock on a missing INDENT returns no node
C26_BlockWithoutIndentReturnsNil ==
    (pc = "file" /\ parser = New(parser.tokens)) =>
        \A i \in BodyStarts(parser) :
            parser.tokens[i + 1].Type # "INDENT"
                => parseBlock(CursorAt(parser, i)).node = Nil


-----------------------------------------------------------------------------
\* C27: serializing any AST node that has a nil child slot renders the
\* placeholder "<nil>" for that child and does not fail; this holds for
\* every child slot of every node variant, as they occur in the partial
\* nodes returned alongside a parse error.
\* parseSimpleStatement has returned a node together with an error
PartialSimple == pc = "afterSimple" /\ err \notin {NoErr, Panic} /\ stmt # Nil

\* the first statement of the file was compound and came back as a node
\* together with an error
PartialCompound ==
    /\ AfterCompound
    /\ parseCompoundStatement(New(parser.tokens)).err \notin {NoErr, Panic}
    /\ parseCompoundStatement(New(parser.tokens)).node # Nil

C27_PartialNodesSerialize ==
    /\ PartialSimple => ~String(stmt).panicked
    /\ PartialCompound => ~String(parseCompoundStatement(New(parser.tokens)).node).panicked

\* "if x:", a line break and the end of the input: the If node returned with
\* the error has no Body, and serializing it fails
C27_IfWithoutBodyFails ==
    /\ PartialCompound
    /\ parseCompoundStatement(New(parser.tokens)).node
          = IfNode(IdentifierNode(<<"x">>), Nil, Nil)
    /\ String(IfNode(IdentifierNode(<<"x">>), Nil, Nil)).panicked

\* the slots written through safeString do render the placeholder: a Return
\* node without its value
C27_HoldsForReturnValue ==
    (PartialSimple /\ stmt = ReturnNode(Nil))
        => /\ ~String(stmt).panicked
           /\ String(stmt).out = <<"r", "e", "t", "u", "r", "n", " ">> \o NIL_STRING \o <<"\n">>


-----------------------------------------------------------------------------
\* C28: unary prefix + and - bind tighter than the binary *, /, %, //, + and
\* - and looser than ** and call/subscript: "-a * b" parses to
\* Infix(*, Prefix(-, a), b), "-a ** b" to Prefix(-, Infix(**, a, b)) and
\* "-f(x)" to Prefix(-, Call(f, x)).
\* the binary operators the claim puts below the unary ones
LooserThanPrefix == {<<"*">>, <<"/">>, <<"%">>, <<"/", "/">>, <<"+">>, <<"-">>}

\* the sources "u a op b", "u a ** b", "u a(x)" and "u a[1]" with the node
\* the claim gives each
PrefixCases ==
    {[source |-> u \o a \o <<" ">> \o op \o <<" ">> \o b,
      node |-> InfixNode(PrefixNode(u, IdentifierNode(a)), op, OperandNode(b))] :
        u \in PrefixOps, a \in {<<"a">>, <<"f">>}, op \in LooserThanPrefix,
        b \in {<<"b">>, <<"2">>}}
    \cup
    {[source |-> u \o a \o <<" ", "*", "*", " ">> \o b,
      node |-> PrefixNode(u, InfixNode(IdentifierNode(a), <<"*", "*">>, OperandNode(b)))] :
        u \in PrefixOps, a \in {<<"a">>, <<"f">>}, b \in {<<"b">>, <<"2">>}}
    \cup
    {[source |-> u \o a \o <<"(", "x", ")">>,
      node |-> PrefixNode(u, CallNode(IdentifierNode(a), <<IdentifierNode(<<"x">>)>>))] :
        u \in PrefixOps, a \in {<<"a">>, <<"f">>}}
    \cup
    {[source |-> u \o a \o <<"[", "1", "]">>,
      node |-> PrefixNode(u, SliceNode(IdentifierNode(a), NumberNode(<<"1">>)))] :
        u \in PrefixOps, a \in {<<"a">>, <<"f">>}}

\* parseSimpleStatement is about to be called on the first token of the file
AtFirstStatement == pc = "simple" /\ parser = New(lexer.tokens)

C28_PrefixBinding ==
    lexer.input \in PrefixPrograms =>
    \A c \in PrefixCases :
        lexer.input \in {c.source, c.source \o <<"\n">>} =>
            /\ AtFirstStatement
                  => /\ parseExpression(parser, LOWEST).node = c.node
                     /\ parseExpression(parser, LOWEST).err = NoErr
                     /\ parseExpression(parser, LOWEST).p.curToken.Type
                           \in {"NEW_LINE", "EOF"}
            /\ (pc = "afterSimple" /\ err = NoErr)
                  => stmt = ExpressionsNode(<<c.node>>)
            /\ (lexer.input = c.source \o <<"\n">> /\ Finished)
                  => YieldsExpression(c.node)

\* "-a * b" and a line break were parsed to the product of -a and b
C28_NegatedOperandOfProduct ==
    /\ lexer.input = <<"-", "a", " ", "*", " ", "b", "\n">>
    /\ YieldsExpression(InfixNode(PrefixNode(<<"-">>, IdentifierNode(<<"a">>)), <<"*">>,
                                  IdentifierNode(<<"b">>)))


-----------------------------------------------------------------------------
\* C29: every binary operator other than ** is left-associative, also across
\* different operators of the same precedence class: for op1 and op2 of
\* equal precedence ("a - b + c", "a < b == c", "a * b // c"),
\* parseExpression yields Infix(op2, Infix(op1, a, b), c).
\* the precedence classes of the binary operators other than **
OperatorClasses ==
    {{<<"o", "r">>}, {<<"a", "n", "d">>}, {<<"<">>, <<"=", "=">>}, {<<"+">>, <<"-">>},
     {<<"*">>, <<"/">>, <<"%">>, <<"/", "/">>}, {<<".">>}}

\* (a op1 b) op2 c
LeftNested(o, op1, op2) ==
    InfixNode(InfixNode(OperandNode(o[1]), op1, OperandNode(o[2])), op2, OperandNode(o[3]))

C29_LeftAssociative ==
    lexer.input \in InfixPrograms =>
    \A o \in Operands, class \in OperatorClasses :
        \A op1 \in class, op2 \in class :
            lexer.input \in {InfixSource(o, op1, op2), InfixSource(o, op1, op2) \o <<"\n">>}
            => /\ AtFirstStatement
                     => /\ parseExpression(parser, LOWEST).node = LeftNested(o, op1, op2)
                        /\ parseExpression(parser, LOWEST).err = NoErr
                        /\ parseExpression(parser, LOWEST).p.curToken.Type
                              \in {"NEW_LINE", "EOF"}
               /\ (pc = "afterSimple" /\ err = NoErr)
                     => stmt = ExpressionsNode(<<LeftNested(o, op1, op2)>>)
               /\ (lexer.input = InfixSource(o, op1, op2) \o <<"\n">> /\ Finished)
                     => YieldsExpression(LeftNested(o, op1, op2))

\* "a * b // c" and a line break were parsed to (a * b) // c
C29_ProductThenFloorDivision ==
    /\ lexer.input = InfixSource(<< <<"a">>, <<"b">>, <<"c">> >>, <<"*">>, <<"/", "/">>)
                        \o <<"\n">>
    /\ YieldsExpression(LeftNested(<< <<"a">>, <<"b">>, <<"c">> >>, <<"*">>, <<"/", "/">>))


-----------------------------------------------------------------------------
\* C30: the token sequence returned by Tokenize never contains two adjacent
\* NEW_LINE tokens, whether or not the input ends with a line break while
\* indentation levels are still open: every NEW_LINE, the closing one
\* included, terminates a non-empty logical line.
\* the positions of the tokens that are NEW_LINE and directly follow one
DoubledLineBreaks(tokens) ==
    {i \in 2..Len(tokens) :
        tokens[i].Type = "NEW_LINE" /\ tokens[i - 1].Type = "NEW_LINE"}

C30_NoAdjacentNewLines == pc = "lexed" => DoubledLineBreaks(lexer.tokens) = {}

\* an indented "x" and a line break: Tokenize returned INDENT, IDENTIFIER,
\* NEW_LINE, NEW_LINE, DEDENT, EOF
C30_ClosingNewLineDoubled ==
    /\ pc = "lexed"
    /\ lexer.input = <<" ", "x", "\n">>
    /\ [i \in DOMAIN lexer.tokens |-> lexer.tokens[i].Type]
          = <<"INDENT", "IDENTIFIER", "NEW_LINE", "NEW_LINE", "DEDENT", "EOF">>

\* NEW_LINE tokens are never doubled while the input is being scanned; in
\* what Tokenize returns the second of two is always the closing one, the
\* empty NEW_LINE appended before the final DEDENTs
C30_HoldsWhileScanning ==
    /\ pc = "lex" => DoubledLineBreaks(lexer.tokens) = {}
    /\ pc = "lexed" =>
          \A i \in DoubledLineBreaks(lexer.tokens) :
              /\ lexer.tokens[i].Literal = <<>>
              /\ lexer.tokens[i + 1].Type = "DEDENT"

=============================================================================
